---- MODULE Spec2Model ----
(***************************************************************************)
(* A model of the MPTCP implementation in net/ipv4/mptcp.c and             *)
(* net/ipv4/mptcp_pm.c: the meta-level receive path (DSS mapping,          *)
(* reassembly, delivery to the application), the token hashtable, the      *)
(* subflow registry with its buffer aggregation, and the path manager.     *)
(*                                                                         *)
(* One multipath control block (MCB) is modelled in detail: `mpcb` holds   *)
(* the fields of struct multipath_pcb together with those of its embedded  *)
(* meta socket, `tp` the subflow sockets.  Sequence numbers are counted    *)
(* from an initial value of zero and stay far below 2^31, so the signed    *)
(* 32-bit difference used by before()/after() is the plain difference.     *)
(* BUG() stops the kernel: it is modelled by setting `bug`, after which no *)
(* action is enabled.                                                      *)
(***************************************************************************)
EXTENDS Integers, Sequences, FiniteSets, TLC

VARIABLES
    sysctl_mptcp_ndiffports,  \* the sysctl of the same name
    sysctl_mptcp_checksum,    \* the sysctl of the same name
    ifa_list,      \* the local addresses of the host's running interfaces
    mpcb,          \* struct multipath_pcb and its meta socket
    tp,            \* the subflow sockets (struct tcp_sock), by socket number
    bug,           \* "none", or the BUG() site that stopped the kernel
    delivered,     \* history: DSN of every byte copied to the application
    ret,           \* the last call made and what it returned
    arrivals,      \* number of segments received so far
    latest_token,  \* static atomic_t latest_token of mptcp_new_token
    tk_hashtable,  \* the token hashtable: bucket -> list of MCBs
    tk_mcb,        \* token-level state of every MCB and of its master socket
    pm_events,     \* number of ADD_ADDR options and JOIN SYNs received so far
    pc             \* where mptcp_close and the fallback worker stand

vars == <<sysctl_mptcp_ndiffports, sysctl_mptcp_checksum, ifa_list, mpcb, tp, bug,
          delivered, ret, arrivals, latest_token, tk_hashtable, tk_mcb, pm_events, pc>>

(***************************************************************************)
(* Bounds of the model.                                                    *)
(***************************************************************************)
\* number of subflow sockets (socket 1 is the master)
NumSocks == 3
\* length of the byte stream the peer sends (DSNs 0 .. StreamLen-1)
StreamLen == 3
\* largest payload of one segment
MaxSegLen == 2
\* most segments received in one run
MaxArrivals == 3
\* largest length a read asks for
MaxReadLen == 2
\* number of MCBs of the token hashtable (MCB 1 is the one modelled in detail)
NumMcb == 3
\* largest value the token counter reaches
MaxToken == 6
\* largest data-level length of one DSS mapping
MaxMapLen == 2
\* largest path index handed out
MaxPathIndex == 7
\* most pending join requests
MaxReqs == 1
\* most ADD_ADDR options and JOIN SYNs received in one run
MaxPmEvents == 2
\* most ADD_ADDR options received in one run of the ADD_ADDR specification
MaxAddAddr == 4
MaxRtxSeq == 4
MaxJoins == 32
MaxJoinSyns == 3
MaxDupReqs == 2
\* address events of the host in one behaviour
MaxNetdevEvents == 25
\* segments the backlog of the meta socket takes before it is full
MaxBacklog == 1
\* most segments the application sends in one run
MaxSend == 2
\* largest smoothed round-trip time of a subflow
MaxSrtt == 2
\* congestion window TCP gives a subflow
MaxCwnd == 2

Socks == 1..NumSocks

(***************************************************************************)
(* Program constants.                                                      *)
(***************************************************************************)
MPTCP_EATEN == 1
MPTCP_QUEUED == 2

Min(a, b) == IF a < b THEN a ELSE b

\* include/net/tcp.h: (__s32)(seq1 - seq2) < 0
before(seq1, seq2) == (seq1 - seq2) < 0
after(seq2, seq1) == before(seq1, seq2)

is_dfin_seg(m, skb) == m.dfin_rcvd /\ m.fin_dsn = skb.end_data_seq

(***************************************************************************)
(* mptcp_parse_options, case MPTCP_SUB_DSS.  `opt` is the DSS option of    *)
(* the segment: M and F bits, data sequence number, relative subflow       *)
(* sequence number and data-level length.  Returns the segment, the MCB's  *)
(* received options and the subflow's after parsing.                       *)
(***************************************************************************)
mptcp_parse_options(m, t, skb, opt) ==
    LET s1 == IF opt.M
              THEN [skb EXCEPT !.dss_off = IF m.dss_csum THEN 1 ELSE 0,
                               !.data_seq = opt.data_seq,
                               !.sub_seq = opt.sub_seq + t.rcv_isn,
                               !.data_len = opt.data_len,
                               !.end_data_seq = opt.data_seq + skb.end_seq - skb.seq]
              ELSE skb
        s2 == IF opt.F THEN [s1 EXCEPT !.end_data_seq = s1.end_data_seq + 1] ELSE s1
        m2 == IF opt.F
              THEN [m EXCEPT !.dfin_rcvd = TRUE, !.fin_dsn = s1.data_seq + s1.data_len]
              ELSE m
        t2 == IF opt.F THEN [t EXCEPT !.saw_dfin = TRUE] ELSE t
    IN [m |-> m2, t |-> t2, skb |-> s2]

\* the options are not walked: every segment counts as carrying the F bit
mptcp_check_dfin_always(skb) == TRUE

\* mptcp_check_dfin: walks the TCP options of the segment for a DSS option
\* with the F bit set
mptcp_check_dfin(skb) == skb.F

\* the test left out: every segment passes
outside_mapping_never(t, skb) == FALSE

\* mptcp_get_dataseq_mapping, "Is it a subflow only FIN ?" is followed by the
\* test that the segment lies inside the subflow's mapping
outside_mapping(t, skb) ==
    before(skb.seq, t.map_subseq)
    \/ after(skb.end_seq, t.map_subseq + t.map_data_len + skb.fin)

\* the DSN taken from the segment's own DSS fields instead of the mapping
mapped_data_seq_of_option(t, skb) == skb.data_seq

\* the DSN of the segment's first byte, from the subflow's mapping
mapped_data_seq(t, skb) == t.map_data_seq + (skb.seq - t.map_subseq)

(***************************************************************************)
(* mptcp_get_dataseq_mapping: returns 1 (in meta-order), 0, or -1 after    *)
(* BUG() when the segment lies outside the stored mapping.                 *)
(***************************************************************************)
\* "Is there dataseq information in this skb ?": the mapping is stored
store_mapping(t, skb) ==
    IF skb.data_len # 0
    THEN [t EXCEPT !.map_data_seq = skb.data_seq,
                   !.map_data_len = skb.data_len,
                   !.map_subseq = skb.sub_seq]
    ELSE t

\* end_data_seq of a segment whose first byte has DSN ds: one more when the
\* segment carries the data FIN
mapped_end_data_seq(m, skb, ds) ==
    IF m.dfin_rcvd /\ ds + skb.len + 1 = m.fin_dsn /\ mptcp_check_dfin(skb)
    THEN ds + skb.len + 1 ELSE ds + skb.len

\* the mapping information of the segment is kept
dataseq_derive_keep_len(m, t, skb, ds, eds) ==
    [t |-> t,
     skb |-> [skb EXCEPT !.data_seq = ds, !.end_data_seq = eds, !.mapped = TRUE,
                         !.msub = t.map_subseq, !.mlen = t.map_data_len],
     ans |-> IF ~before(m.copied_seq, ds) /\ before(m.copied_seq, eds) THEN 1 ELSE 0,
     bug |-> "none"]

\* the segment gets its DSNs; "Is this skb in meta-order ?"
dataseq_derive(m, t, skb, ds, eds) ==
    [t |-> t,
     skb |-> [skb EXCEPT !.data_seq = ds, !.end_data_seq = eds,
                         !.data_len = 0, !.mapped = TRUE,
                         !.msub = t.map_subseq, !.mlen = t.map_data_len],
     ans |-> IF ~before(m.copied_seq, ds) /\ before(m.copied_seq, eds) THEN 1 ELSE 0,
     bug |-> "none"]

\* the function after the mapping is stored
dataseq_mapping_stored(m, t, skb) ==
    IF skb.fin = 1 /\ ~t.saw_dfin /\ skb.len = 0
    THEN [t |-> t, skb |-> skb, ans |-> 0, bug |-> "none"]
    ELSE IF outside_mapping(t, skb)
    THEN [t |-> t, skb |-> skb, ans |-> -1, bug |-> "mptcp_get_dataseq_mapping"]
    ELSE dataseq_derive(m, t, skb, mapped_data_seq(t, skb),
                        mapped_end_data_seq(m, skb, mapped_data_seq(t, skb)))

mptcp_get_dataseq_mapping(m, t, skb) ==
    dataseq_mapping_stored(m, store_mapping(t, skb), skb)

\* the data FIN leaves the meta socket as it is
mptcp_fin_ignored(m, skb) == m

\* mptcp_fin: a data FIN shuts the receive side of the meta socket
mptcp_fin(m, skb) ==
    IF is_dfin_seg(m, skb)
    THEN [m EXCEPT !.rcv_shutdown = TRUE, !.sock_done = TRUE,
                   !.sk_state = IF m.sk_state = "ESTABLISHED" THEN "CLOSE_WAIT"
                                ELSE m.sk_state]
    ELSE m

\* if (tcp_hdr(skb)->fin) mptcp_fin(skb, mpcb_sk)
fin_if_set(m, skb) == IF skb.fin = 1 THEN mptcp_fin(m, skb) ELSE m

(***************************************************************************)
(* mptcp_ofo_queue: moves the segments of the out-of-order queue that have *)
(* become in order to the receive queue.  Returns the MCB and the BUG()    *)
(* site if one is hit.                                                     *)
(***************************************************************************)
RECURSIVE mptcp_ofo_queue(_)
mptcp_ofo_queue(m) ==
    IF m.out_of_order_queue = <<>> THEN [m |-> m, bug |-> "none"]
    ELSE LET skb == Head(m.out_of_order_queue)
         IN  IF after(skb.data_seq, m.rcv_nxt) THEN [m |-> m, bug |-> "none"]
             ELSE IF ~after(skb.end_data_seq, m.rcv_nxt)
             THEN [m |-> m, bug |-> "mptcp_ofo_queue"]
             ELSE mptcp_ofo_queue(fin_if_set(
                     [m EXCEPT !.out_of_order_queue = Tail(m.out_of_order_queue),
                               !.sk_receive_queue = Append(m.sk_receive_queue, skb),
                               !.rcv_nxt = skb.end_data_seq], skb))

\* the walk from the tail of the out-of-order queue (mptcp_queue_skb, "Find
\* place to insert this segment"): index of skb1, 0 for the list head
RECURSIVE ofo_find_place(_, _, _)
ofo_find_place(q, skb, i) ==
    IF i = 0 THEN 0
    ELSE IF ~after(q[i].data_seq, skb.data_seq) THEN i
    ELSE ofo_find_place(q, skb, i - 1)

\* mptcp_queue_skb, "clean segments covered by new one as whole"
RECURSIVE ofo_clean_covered(_, _)
ofo_clean_covered(skb, rest) ==
    IF rest # <<>> /\ after(skb.end_data_seq, Head(rest).data_seq)
                   /\ ~before(skb.end_data_seq, Head(rest).end_data_seq)
    THEN ofo_clean_covered(skb, Tail(rest))
    ELSE rest

(***************************************************************************)
(* mptcp_queue_skb: hands a segment that is in subflow order to the meta   *)
(* socket.  Returns the MCB, the subflow, the segment and MPTCP_EATEN or   *)
(* MPTCP_QUEUED.                                                           *)
(***************************************************************************)
queue_skb_ofo(m, skb) ==
    LET q == m.out_of_order_queue
        i == ofo_find_place(q, skb, Len(q))
        overlap == i # 0 /\ before(skb.data_seq, q[i].end_data_seq)
    IN  IF q = <<>>
        THEN [m |-> [m EXCEPT !.out_of_order_queue = <<skb>>],
              ans |-> MPTCP_QUEUED, bug |-> "none"]
        ELSE IF overlap /\ ~after(skb.end_data_seq, q[i].end_data_seq)
        THEN [m |-> m, ans |-> MPTCP_EATEN, bug |-> "none"]
        ELSE IF overlap /\ ~after(skb.data_seq, q[i].data_seq)
        THEN [m |-> m, ans |-> 0, bug |-> "mptcp_queue_skb"]
        ELSE [m |-> [m EXCEPT !.out_of_order_queue =
                        SubSeq(q, 1, i) \o <<skb>>
                        \o ofo_clean_covered(skb, SubSeq(q, i + 1, Len(q)))],
              ans |-> MPTCP_QUEUED, bug |-> "none"]

\* the duplicate test left out
is_duplicate_never(m, skb) == FALSE

\* mptcp_queue_skb, "already received at the meta level": the duplicate test
is_duplicate(m, skb) == ~before(m.rcv_nxt, skb.end_data_seq)

\* mptcp_queue_skb, the segment is in meta-order: it goes to the tail of the
\* receive queue, and mptcp_ofo_queue runs if the out-of-order queue is not
\* empty
ofo_queue_if_any(m) ==
    IF m.out_of_order_queue # <<>> THEN mptcp_ofo_queue(m) ELSE [m |-> m, bug |-> "none"]

queued(r) == [m |-> r.m, ans |-> MPTCP_QUEUED, bug |-> r.bug]

queue_skb_inorder(m, skb) ==
    queued(ofo_queue_if_any(fin_if_set(
        [m EXCEPT !.sk_receive_queue = Append(m.sk_receive_queue, skb),
                  !.rcv_nxt = skb.end_data_seq], skb)))

\* mptcp_queue_skb, "Verify the checksum first"
csum_check(t, skb) ==
    IF skb.dss_off # 0 /\ skb.csum_bad THEN [t EXCEPT !.csum_error = TRUE] ELSE t

queue_skb_result(t, skb, r) ==
    [m |-> r.m, t |-> t, skb |-> skb, ans |-> r.ans, bug |-> r.bug]

\* mptcp_queue_skb from the duplicate test on; g is the subflow and the
\* segment as mptcp_get_dataseq_mapping left them
queue_skb_mapped(m, g) ==
    IF g.bug # "none"
    THEN [m |-> m, t |-> g.t, skb |-> g.skb, ans |-> 0, bug |-> g.bug]
    ELSE IF is_duplicate(m, g.skb)
    THEN [m |-> m, t |-> g.t, skb |-> g.skb, ans |-> MPTCP_EATEN, bug |-> "none"]
    ELSE queue_skb_result(csum_check(g.t, g.skb), g.skb,
            IF before(m.rcv_nxt, g.skb.data_seq)
            THEN queue_skb_ofo(m, g.skb) ELSE queue_skb_inorder(m, g.skb))

\* mptcp_queue_skb, tp->copied_seq = TCP_SKB_CB(skb)->end_seq (+ 1 for a FIN)
subflow_copied(t, skb) == [t EXCEPT !.copied_seq = skb.end_seq + skb.fin]

mptcp_queue_skb(m, t, skb) ==
    IF ~t.mpc
    THEN [m |-> m, t |-> [t EXCEPT !.sk_receive_queue = Append(t.sk_receive_queue, skb)],
          skb |-> skb, ans |-> MPTCP_QUEUED, bug |-> "none"]
    ELSE IF skb.len = 0 /\ skb.fin = 1 /\ ~t.saw_dfin
    THEN [m |-> m, t |-> [t EXCEPT !.copied_seq = t.copied_seq + 1],
          skb |-> skb, ans |-> MPTCP_EATEN, bug |-> "none"]
    ELSE queue_skb_mapped(m,
            IF skb.data_len # 0
            THEN mptcp_get_dataseq_mapping(m, subflow_copied(t, skb), skb)
            ELSE [t |-> subflow_copied(t, skb), skb |-> skb, ans |-> 0, bug |-> "none"])

(***************************************************************************)
(* mptcp_check_rcv_queue: copies up to len bytes from the meta receive     *)
(* queue to the application, from DSN data_seq on.                         *)
(***************************************************************************)
\* the inner loop: walks the receive queue from its head to the segment
\* holding data_seq
\* data_offset without the subtraction: every segment is copied from its
\* first byte
data_offset_zero(data_seq, skb) == 0

\* mptcp_check_rcv_queue: data_offset = *data_seq - TCP_SKB_CB(skb)->data_seq
data_offset(data_seq, skb) == data_seq - skb.data_seq

RECURSIVE rcv_walk(_, _, _, _, _)
rcv_walk(m, q, i, dfin, data_seq) ==
    IF i > Len(q) THEN [kind |-> "exit", i |-> i, dfin |-> dfin, off |-> 0]
    ELSE LET skb == q[i]
             d == dfin \/ is_dfin_seg(m, skb)
             off == data_offset(data_seq, skb)
         IN  IF before(data_seq, skb.data_seq)
             THEN [kind |-> "bug", i |-> i, dfin |-> d, off |-> 0]
             ELSE IF off < skb.len
             THEN [kind |-> "found_ok_skb", i |-> i, dfin |-> d, off |-> off]
             ELSE IF d
             THEN [kind |-> "found_fin_ok", i |-> i, dfin |-> d, off |-> off]
             ELSE IF skb.len + (IF d THEN 1 ELSE 0) # skb.end_data_seq - skb.data_seq
             THEN [kind |-> "bug", i |-> i, dfin |-> d, off |-> off]
             ELSE rcv_walk(m, q, i + 1, d, data_seq)

\* sk_eat_skb: unlinks segment i from the queue
sk_eat_skb(q, i) == SubSeq(q, 1, i - 1) \o SubSeq(q, i + 1, Len(q))

\* the DSNs the sender gave to bytes off .. off+used-1 of the segment
copied_bytes(skb, off, used) == [k \in 1..used |-> skb.pay + off + k - 1]

RECURSIVE mptcp_check_rcv_queue(_, _, _, _, _, _)
rcv_done(q, data_seq, out) == [q |-> q, data_seq |-> data_seq, out |-> out, bug |-> "none"]

\* found_fin_ok: the data FIN counts for one DSN and its segment is eaten
rcv_fin(q, i, data_seq, out, peek) ==
    rcv_done(IF peek THEN q ELSE sk_eat_skb(q, i), data_seq + 1, out)

\* used = skb->len - data_offset, at most len
used_bytes(skb, off, len) == Min(skb.len - off, len)

\* found_ok_skb after the copy: data_seq, len and out are the values after it
rcv_copied(m, q, i, dfin, data_seq, len, out, peek) ==
    IF dfin THEN rcv_fin(q, i, data_seq, out, peek)
    ELSE IF data_seq = q[i].end_data_seq /\ ~peek
    THEN IF len > 0
         THEN mptcp_check_rcv_queue(m, sk_eat_skb(q, i), data_seq, len, out, peek)
         ELSE rcv_done(sk_eat_skb(q, i), data_seq, out)
    ELSE IF ~peek /\ len # 0
    THEN [q |-> q, data_seq |-> data_seq, out |-> out, bug |-> "mptcp_check_rcv_queue"]
    ELSE IF len > 0
    THEN mptcp_check_rcv_queue(m, q, data_seq, len, out, peek)
    ELSE rcv_done(q, data_seq, out)

\* w is where the walk over the receive queue ended
rcv_found(m, q, data_seq, len, out, peek, w) ==
    IF w.kind = "bug"
    THEN [q |-> q, data_seq |-> data_seq, out |-> out, bug |-> "mptcp_check_rcv_queue"]
    ELSE IF w.kind = "exit" THEN rcv_done(q, data_seq, out)
    ELSE IF w.kind = "found_fin_ok" THEN rcv_fin(q, w.i, data_seq, out, peek)
    ELSE rcv_copied(m, q, w.i, w.dfin,
                    data_seq + used_bytes(q[w.i], w.off, len),
                    len - used_bytes(q[w.i], w.off, len),
                    out \o copied_bytes(q[w.i], w.off, used_bytes(q[w.i], w.off, len)),
                    peek)

mptcp_check_rcv_queue(m, q, data_seq, len, out, peek) ==
    rcv_found(m, q, data_seq, len, out, peek, rcv_walk(m, q, 1, FALSE, data_seq))

(***************************************************************************)
(* Sockets.                                                                *)
(***************************************************************************)
\* sysctl_rmem_default and sysctl_wmem_default, in the model's buffer unit
sysctl_rmem_default == 7
sysctl_wmem_default == 9

\* buffer sizes TCP gave subflow socket s (each socket has its own)
tcp_rcvbuf(s) == s
tcp_sndbuf(s) == s + 1
tcp_window_clamp(s) == 2 * s
tcp_rcv_ssthresh(s) == s + 2

\* a socket as sk_alloc leaves it: every MPTCP field zero
sock_zero(s) ==
    [ open |-> FALSE, mpc |-> FALSE, mpcb |-> FALSE, attached |-> FALSE,
      slave_sk |-> FALSE, path_index |-> 0, sk_state |-> "CLOSE",
      sk_rcvbuf |-> tcp_rcvbuf(s), sk_sndbuf |-> tcp_sndbuf(s),
      window_clamp |-> tcp_window_clamp(s), rcv_ssthresh |-> tcp_rcv_ssthresh(s),
      rcv_isn |-> s, rcv_nxt |-> s + 1, copied_seq |-> s + 1,
      map_data_seq |-> 0, map_data_len |-> 0, map_subseq |-> 0,
      saw_dfin |-> FALSE, csum_error |-> FALSE, fin_rcvd |-> FALSE,
      snd_map_data_seq |-> 0, snd_map_subseq |-> 0,
      sk_receive_queue |-> <<>>,
      loc_id |-> 0, rem_id |-> 0,
      saddr |-> 0, sport |-> 0, daddr |-> 0, dport |-> 0,
      sk_refcnt |-> 0,
      pf |-> FALSE, srtt |-> 0, snd_cwnd |-> 0, packets_out |-> 0,
      icsk_ca_state |-> "Open", sk_write_queue |-> <<>>,
      owned |-> FALSE ]

\* is_master_tp (the sockets of tp are never the meta socket)
is_master_tp(t) == ~t.slave_sk

\* the subflows of the connection list, head first (mptcp_for_each_tp)
RECURSIVE SumOver(_, _, _)
SumOver(list, T, field) ==
    IF list = <<>> THEN 0
    ELSE T[Head(list)][field] + SumOver(Tail(list), T, field)

(***************************************************************************)
(* mptcp_update_window_clamp and mptcp_update_sndbuf: the meta socket's    *)
(* buffers are the sums over the subflows of the connection list.          *)
(***************************************************************************)
mptcp_update_window_clamp(m, T) ==
    IF ~m.mpc THEN m
    ELSE [m EXCEPT !.window_clamp = SumOver(m.connection_list, T, "window_clamp"),
                   !.rcv_ssthresh = SumOver(m.connection_list, T, "rcv_ssthresh"),
                   !.sk_rcvbuf = SumOver(m.connection_list, T, "sk_rcvbuf")]

mptcp_update_sndbuf(m, T) ==
    [m EXCEPT !.sk_sndbuf = SumOver(m.connection_list, T, "sk_sndbuf")]

(***************************************************************************)
(* mptcp_add_sock: attaches subflow s to the MCB, then empties the         *)
(* subflow's receive queue into the meta socket.                           *)
(***************************************************************************)
\* the loop over sk->sk_receive_queue at the end of mptcp_add_sock
\* what one call of mptcp_get_dataseq_mapping / mptcp_queue_skb did: the
\* segment, the answer, and the meta socket before and after the call
call_entry(fn, mpc, skb, ans, m0, m1) ==
    [fn |-> fn, mpc |-> mpc, skb |-> skb, ans |-> ans,
     pre |-> [rcv_nxt |-> m0.rcv_nxt, sk_receive_queue |-> m0.sk_receive_queue,
              out_of_order_queue |-> m0.out_of_order_queue],
     post |-> [rcv_nxt |-> m1.rcv_nxt, copied_seq |-> m1.copied_seq,
               sk_receive_queue |-> m1.sk_receive_queue,
               out_of_order_queue |-> m1.out_of_order_queue]]

RECURSIVE add_sock_drain(_, _, _)
\* the segment went through mptcp_queue_skb: r is what it returned
drain_queued(m, calls, r) ==
    IF r.bug # "none"
    THEN [m |-> r.m, t |-> r.t, bug |-> r.bug,
          calls |-> Append(calls, call_entry("mptcp_queue_skb", TRUE, r.skb, r.ans, m, r.m))]
    ELSE add_sock_drain(r.m, r.t,
            Append(calls, call_entry("mptcp_queue_skb", TRUE, r.skb, r.ans, m, r.m)))

\* the segment went through mptcp_get_dataseq_mapping: g is what it returned;
\* if (new_mapping < 0) BUG()
drain_mapped(m, calls, g) ==
    IF g.bug # "none" \/ g.ans < 0
    THEN [m |-> m, t |-> g.t, bug |-> "mptcp_add_sock",
          calls |-> Append(calls,
                call_entry("mptcp_get_dataseq_mapping", TRUE, g.skb, g.ans, m, m))]
    ELSE drain_queued(m, calls, mptcp_queue_skb(m, g.t, g.skb))

add_sock_drain(m, t, calls) ==
    IF t.sk_receive_queue = <<>> THEN [m |-> m, t |-> t, bug |-> "none", calls |-> calls]
    ELSE drain_mapped(m, calls,
            mptcp_get_dataseq_mapping(m,
                [t EXCEPT !.sk_receive_queue = Tail(t.sk_receive_queue)],
                Head(t.sk_receive_queue)))

\* the path index left as it is
first_path_index_kept(pi) == pi

\* mptcp_add_sock: "first subflow" gets path index 1
first_path_index(pi) == IF pi = 0 THEN 1 ELSE pi

\* tp->path_index, tp->mpcb and tp->attached of the new subflow
add_sock_attach(t) ==
    [t EXCEPT !.path_index = first_path_index(t.path_index),
              !.mpcb = TRUE, !.attached = TRUE]

\* list_add of the subflow at the head of the connection list
add_sock_link(m, s) ==
    [m EXCEPT !.connection_list = <<s>> \o m.connection_list,
              !.cnt_subflows = m.cnt_subflows + 1]

\* the meta socket follows the first established subflow
meta_established(m) ==
    [m EXCEPT !.sk_state = IF m.sk_state \in {"SYN_SENT", "SYN_RECV"}
                           THEN "ESTABLISHED" ELSE m.sk_state]

add_sock_established_any(m, T, s) ==
    meta_established(mptcp_update_sndbuf(
        [m EXCEPT !.cnt_established = m.cnt_established + 1], T))

\* if (sk->sk_state == TCP_ESTABLISHED) { ... }
add_sock_established(m, T, s) ==
    IF T[s].sk_state = "ESTABLISHED"
    THEN meta_established(mptcp_update_sndbuf(
            [m EXCEPT !.cnt_established = m.cnt_established + 1], T))
    ELSE m

add_sock_result(T, s, d) ==
    [m |-> d.m, T |-> [T EXCEPT ![s] = d.t], bug |-> d.bug, calls |-> d.calls]

\* mptcp_add_sock after the subflow's own fields are set (in T)
add_sock_attached(m, T, s) ==
    add_sock_result(T, s,
        add_sock_drain(
            add_sock_established(mptcp_update_window_clamp(add_sock_link(m, s), T), T, s),
            T[s], <<>>))

\* the reference on the master is not taken
add_sock_hold_none(m, T, s) == T

\* if (!tp->mpcb) { ... if (!is_master_tp(tp)) sock_hold(mpcb->master_sk); }
add_sock_hold(m, T, s) ==
    IF ~T[s].mpcb /\ ~is_master_tp(T[s])
    THEN [T EXCEPT ![m.master_sk].sk_refcnt = T[m.master_sk].sk_refcnt + 1]
    ELSE T

\* the subflow's own fields, after the reference is taken
add_sock_fields(T, s) == [T EXCEPT ![s] = add_sock_attach(T[s])]

mptcp_add_sock(m, T, s) ==
    IF ~T[s].mpc THEN [m |-> m, T |-> T, bug |-> "mptcp_add_sock", calls |-> <<>>]
    ELSE add_sock_attached(m, add_sock_fields(add_sock_hold(m, T, s), s), s)

(***************************************************************************)
(* mptcp_del_sock: detaches subflow s from the MCB.                        *)
(***************************************************************************)
\* the entry of s left in the list
list_del_kept(list, s) == list

\* list_del: unlinks the (one) entry of s
RECURSIVE list_del(_, _)
list_del(list, s) ==
    IF list = <<>> THEN <<>>
    ELSE IF Head(list) = s THEN Tail(list)
    ELSE <<Head(list)>> \o list_del(Tail(list), s)

mptcp_del_sock(m, T, s) ==
    IF ~T[s].mpc THEN [m |-> m, T |-> T, bug |-> "none"]
    ELSE IF ~T[s].attached THEN [m |-> m, T |-> T, bug |-> "none"]
    ELSE IF \E i \in 1..Len(m.connection_list) : m.connection_list[i] = s
    THEN [m |-> [m EXCEPT !.connection_list = list_del(m.connection_list, s),
                          !.cnt_subflows = m.cnt_subflows - 1],
          T |-> [T EXCEPT ![s].attached = FALSE], bug |-> "none"]
    ELSE [m |-> m, T |-> [T EXCEPT ![s].attached = FALSE], bug |-> "mptcp_del_sock"]

(***************************************************************************)
(* The path manager.  An address of addr4 / received_options.addr4 is a    *)
(* record [id, addr, port]; a path of pa4 is a record with the ids, the    *)
(* addresses and ports of both ends, and the path index.                   *)
(***************************************************************************)
MPTCP_MAX_ADDR == 12

\* the first index of seq whose element satisfies Test, 0 if there is none
FirstIndex(seq, Test(_)) ==
    IF \E i \in 1..Len(seq) : Test(seq[i])
    THEN CHOOSE i \in 1..Len(seq) : Test(seq[i]) /\ \A j \in 1..(i - 1) : ~Test(seq[j])
    ELSE 0

\* one iteration of the loop of find_path_mapping4: ids equal, and ports
\* equal where neither is the wildcard 0
path_matches(p, loc, rem) ==
    /\ p.loc_id = loc.id
    /\ p.rem_id = rem.id
    /\ ~(p.loc_port # 0 /\ loc.port # 0 /\ p.loc_port # loc.port)
    /\ ~(p.rem_port # 0 /\ rem.port # 0 /\ p.rem_port # rem.port)

\* find_path_mapping4: index of the first matching path, 0 for NULL
find_path_mapping4(loc, rem, m) ==
    FirstIndex(m.pa4, LAMBDA p : path_matches(p, loc, rem))

\* mptcp_get_path4: index of the first path with that path index, 0 for NULL
mptcp_get_path4(m, path_index) ==
    FirstIndex(m.pa4, LAMBDA p : p.path_index = path_index)

\* __mptcp_update_patharray_ports
mptcp_update_patharray_ports(m, ndiffports) ==
    IF m.pa4_alloc THEN m
    ELSE [m EXCEPT
            !.pa4 = [k \in 1..(ndiffports - 1) |->
                       [loc_id |-> 0, loc_addr |-> m.inet_saddr, loc_port |-> 0,
                        rem_id |-> 0, rem_addr |-> m.inet_daddr,
                        rem_port |-> m.inet_dport,
                        path_index |-> m.next_unused_pi + k - 1]],
            !.next_unused_pi = m.next_unused_pi + ndiffports - 1,
            !.pa4_alloc = TRUE]

\* the pairs of the two ULID loops only
patharray_pairs_ulid(m) ==
    [j \in 1..Len(m.raddr4) |->
        <<[id |-> 0, addr |-> m.inet_saddr, port |-> 0], m.raddr4[j]>>]
    \o [i \in 1..Len(m.addr4) |->
        <<m.addr4[i], [id |-> 0, addr |-> m.inet_daddr, port |-> 0]>>]

\* the (local, remote) pairs in the order of the three loops of
\* mptcp_v4_update_patharray
patharray_pairs(m) ==
    LET loc_ulid == [id |-> 0, addr |-> m.inet_saddr, port |-> 0]
        rem_ulid == [id |-> 0, addr |-> m.inet_daddr, port |-> 0]
        nl == Len(m.addr4)
        nr == Len(m.raddr4)
    IN  [j \in 1..nr |-> <<loc_ulid, m.raddr4[j]>>]
        \o [i \in 1..nl |-> <<m.addr4[i], rem_ulid>>]
        \o [k \in 1..(nl * nr) |->
              <<m.addr4[((k - 1) \div nr) + 1], m.raddr4[((k - 1) % nr) + 1]>>]

\* the body shared by the three loops: keep the old path that matches, or
\* make a new one with the next unused path index
RECURSIVE patharray_fill(_, _, _, _)
patharray_fill(m, pairs, new_pa4, next_pi) ==
    IF pairs = <<>> THEN [pa4 |-> new_pa4, next_unused_pi |-> next_pi]
    ELSE LET loc == Head(pairs)[1]
             rem == Head(pairs)[2]
             p == find_path_mapping4(loc, rem, m)
         IN  IF p # 0
             THEN patharray_fill(m, Tail(pairs), Append(new_pa4, m.pa4[p]), next_pi)
             ELSE patharray_fill(m, Tail(pairs),
                     Append(new_pa4,
                        [loc_id |-> loc.id, loc_addr |-> loc.addr, loc_port |-> 0,
                         rem_id |-> rem.id, rem_addr |-> rem.addr,
                         rem_port |-> m.inet_dport, path_index |-> next_pi]),
                     next_pi + 1)

\* mptcp_v4_update_patharray (mptcp_update_patharray calls nothing else
\* for IPv4)
mptcp_update_patharray(m, ndiffports) ==
    IF ndiffports > 1 THEN mptcp_update_patharray_ports(m, ndiffports)
    ELSE LET f == patharray_fill(m, patharray_pairs(m), <<>>, m.next_unused_pi)
         IN [m EXCEPT !.pa4 = f.pa4, !.next_unused_pi = f.next_unused_pi,
                      !.pa4_alloc = TRUE]

\* the addresses of the host that are IPv6 addresses
Ipv6Addrs == {61}

\* mptcp_set_addresses: the local addresses other than the master's (an
\* IPv4 socket) get the ids 1, 2, ... in the order of the interface list,
\* IPv4 and IPv6 addresses from the same counter; acc is what the loops
\* have stored so far
RECURSIVE set_addresses_loop(_, _, _)
set_addresses_loop(ifa, master_saddr, acc) ==
    IF ifa = <<>> THEN acc
    ELSE IF Head(ifa) \in Ipv6Addrs
    THEN IF Len(acc.addr6) = MPTCP_MAX_ADDR THEN acc
         ELSE set_addresses_loop(Tail(ifa), master_saddr,
                 [acc EXCEPT !.addr6 = Append(acc.addr6,
                                 [id |-> acc.id, addr |-> Head(ifa), port |-> 0]),
                             !.id = acc.id + 1])
    ELSE IF Len(acc.addr4) = MPTCP_MAX_ADDR THEN acc
    ELSE IF Head(ifa) = master_saddr
    THEN set_addresses_loop(Tail(ifa), master_saddr, acc)
    ELSE set_addresses_loop(Tail(ifa), master_saddr,
            [acc EXCEPT !.addr4 = Append(acc.addr4,
                            [id |-> acc.id, addr |-> Head(ifa), port |-> 0]),
                        !.id = acc.id + 1])

mptcp_set_addresses(m, master, ndiffports, ifa) ==
    IF ndiffports # 1 THEN m
    ELSE LET a == set_addresses_loop(ifa, master.saddr,
                                     [addr4 |-> <<>>, addr6 |-> <<>>, id |-> 1])
         IN [m EXCEPT !.addr4 = a.addr4, !.addr4_unsent = Len(a.addr4),
                      !.addr6 = a.addr6, !.addr6_unsent = Len(a.addr6)]

(***************************************************************************)
(* mptcp_pm_inetaddr_event for one MCB of the token hashtable: the local   *)
(* address addr comes up or goes down.                                     *)
(***************************************************************************)
\* the subflows of the connection list whose source address is addr
subflows_on(m, T, addr) ==
    {m.connection_list[k] : k \in {j \in 1..Len(m.connection_list) :
                                       T[m.connection_list[j]].saddr = addr}}

\* the id the new address gets: mpcb->num_addr4 + 1
inetaddr_new_id(m) == Len(m.addr4) + 1

\* "update this mpcb"
inetaddr_add(m, addr) ==
    IF Len(m.addr4) >= MPTCP_MAX_ADDR THEN m
    ELSE [m EXCEPT !.addr4 = Append(m.addr4,
                        [id |-> inetaddr_new_id(m), addr |-> addr, port |-> 0]),
                   !.addr4_unsent = m.addr4_unsent + 1,
                   !.list_rcvd = TRUE]

mptcp_pm_inetaddr_event(m, T, up, addr) ==
    IF ~T[m.master_sk].mpc THEN [m |-> m, T |-> T]
    ELSE [m |-> IF subflows_on(m, T, addr) = {} /\ up THEN inetaddr_add(m, addr) ELSE m,
          T |-> [s \in DOMAIN T |->
                   IF s \in subflows_on(m, T, addr) THEN [T[s] EXCEPT !.pf = ~up]
                   ELSE T[s]]]

\* an entry of the address array that was never written
addr_unset == [id |-> 0, addr |-> 0, port |-> 0]

(***************************************************************************)
(* mptcp_v4_add_raddress: learns a remote address.  Returns the MCB and    *)
(* 0, or -1 when the array is full.  A new address is stored through loc4, *)
(* which points at the last entry the loop looked at.                      *)
(***************************************************************************)
RECURSIVE add_raddress_loop(_, _, _, _, _)
add_raddress_loop(m, addr, port, id, i) ==
    IF i > Len(m.raddr4)
    THEN IF Len(m.raddr4) = MPTCP_MAX_ADDR THEN [m |-> m, ans |-> -1]
         ELSE LET new == [id |-> id, addr |-> addr, port |-> port]
                  n == Len(m.raddr4)
              IN [m |-> [m EXCEPT !.raddr4 = IF n = 0 THEN <<new>>
                                             ELSE Append([m.raddr4 EXCEPT ![n] = new],
                                                         addr_unset),
                                  !.list_rcvd = TRUE],
                  ans |-> 0]
    ELSE LET loc4 == m.raddr4[i]
         IN  IF loc4.addr = addr /\ loc4.port = port THEN [m |-> m, ans |-> 0]
             ELSE IF loc4.id = id /\ loc4.addr # addr
             THEN [m |-> [m EXCEPT !.raddr4[i].addr = addr, !.raddr4[i].port = port,
                                   !.list_rcvd = TRUE],
                   ans |-> 0]
             ELSE add_raddress_loop(m, addr, port, id, i + 1)

\* the id is not looked at: the ULID is stored like any address
mptcp_v4_add_raddress_any_id(m, addr, port, id) ==
    add_raddress_loop(m, addr, port, id, 1)

mptcp_v4_add_raddress(m, addr, port, id) ==
    IF id = 0 THEN [m |-> m, ans |-> 0]
    ELSE add_raddress_loop(m, addr, port, id, 1)

(***************************************************************************)
(* mptcp_update_metasocket: copies the master's addresses and ports to the *)
(* meta socket and rebuilds the local addresses and the path array.        *)
(***************************************************************************)
\* if (mpcb->num_addr4 || mpcb->num_addr6) mptcp_update_patharray(mpcb)
patharray_if_addrs(m, ndiffports) ==
    IF Len(m.addr4) # 0 THEN mptcp_update_patharray(m, ndiffports) ELSE m

mptcp_update_metasocket(m, t, ndiffports, ifa) ==
    IF ~is_master_tp(t) THEN m
    ELSE patharray_if_addrs(
            mptcp_set_addresses(
                [m EXCEPT !.inet_dport = t.dport, !.inet_sport = t.sport,
                          !.inet_daddr = t.daddr, !.inet_saddr = t.saddr],
                t, ndiffports, ifa),
            ndiffports)

\* the local port the kernel picks for socket s when it binds to port 0
ephemeral_port(s) == 100 + s

\* the socket structure inet_create gets: the lowest free socket number
free_sock(T) == CHOOSE s \in Socks : ~T[s].open /\ \A x \in Socks : x < s => T[x].open

\* a u32 mask of path indices is the set of the indices whose bit is set
PI_TO_FLAG(pi) == {pi}

\* mptcp_sock_destruct of a slave subflow, then the socket is freed: the
\* reference taken on the master when the mpcb pointer was set is dropped;
\* d is what mptcp_del_sock returned
mptcp_sock_destruct(m, d, s) ==
    IF ~d.T[s].mpcb
    THEN [m |-> d.m, T |-> [d.T EXCEPT ![s] = sock_zero(s)], bug |-> d.bug]
    ELSE IF d.T[s].attached
    THEN [m |-> d.m, T |-> d.T,
          bug |-> IF d.bug # "none" THEN d.bug ELSE "mptcp_sock_destruct"]
    ELSE [m |-> d.m,
          T |-> [d.T EXCEPT ![s] = sock_zero(s),
                            ![m.master_sk].sk_refcnt = d.T[m.master_sk].sk_refcnt - 1],
          bug |-> d.bug]

\* sock.ops->release of a subflow socket: inet_csk_destroy_sock detaches it
\* from the MCB and the socket is freed
sock_release(m, T, s) ==
    mptcp_sock_destruct(m, mptcp_del_sock(m, T, s), s)

(***************************************************************************)
(* mptcp_init_subsockets: opens a subflow for every path index of the mask *)
(* that no subflow of the connection list has.  `failing` holds the path   *)
(* indices whose bind() or connect() fails.                                *)
(***************************************************************************)
RECURSIVE existing_path_indices(_, _)
existing_path_indices(list, T) ==
    IF list = <<>> THEN {}
    ELSE PI_TO_FLAG(T[Head(list)].path_index) \cup existing_path_indices(Tail(list), T)

RECURSIVE init_subsockets_loop(_, _, _, _, _)
\* the new socket of path p, as inet_create and the function set it up
subsocket(s, p, newpi) ==
    [sock_zero(s) EXCEPT !.open = TRUE, !.loc_id = p.loc_id, !.rem_id = p.rem_id,
                         !.path_index = newpi, !.mpc = TRUE, !.slave_sk = TRUE]

\* the local port of the subflow once it is bound
subsocket_port(p, s) == IF p.loc_port # 0 THEN p.loc_port ELSE ephemeral_port(s)

\* cont_error: the socket is released and the loop goes on
subsocket_released(r, path_indices, failing, i) ==
    IF r.bug # "none" THEN r
    ELSE init_subsockets_loop(r.m, r.T, path_indices, failing, i + 1)

\* after mptcp_add_sock (a is what it returned): bind and connect
subsocket_added(a, s, pa, p, path_indices, failing, i) ==
    IF a.bug # "none" THEN [m |-> a.m, T |-> a.T, bug |-> a.bug]
    ELSE IF (i + 1) \in failing
    THEN subsocket_released(sock_release(a.m, a.T, s), path_indices, failing, i)
    ELSE init_subsockets_loop(
            [a.m EXCEPT !.pa4[pa].loc_port = subsocket_port(p, s)],
            [a.T EXCEPT ![s].saddr = p.loc_addr, ![s].sport = subsocket_port(p, s),
                        ![s].daddr = p.rem_addr, ![s].dport = p.rem_port,
                        ![s].sk_state = "SYN_SENT"],
            path_indices, failing, i + 1)

\* "If the remote port is unknown, take the one of the meta socket"
path_rem_port(m, pa) ==
    IF m.pa4[pa].rem_port = 0 THEN [m EXCEPT !.pa4[pa].rem_port = m.inet_dport] ELSE m

\* the subflow of path pa is made and attached
subsocket_open(m, T, s, pa, path_indices, failing, i) ==
    subsocket_added(mptcp_add_sock(m, [T EXCEPT ![s] = subsocket(s, m.pa4[pa], i + 1)], s),
                    s, pa, m.pa4[pa], path_indices, failing, i)

\* pa4 = mptcp_get_path4(mpcb, newpi); BUG_ON(!pa4)
subsocket_path(m, T, s, pa, path_indices, failing, i) ==
    IF pa = 0 THEN [m |-> m, T |-> [T EXCEPT ![s].open = TRUE],
                    bug |-> "mptcp_init_subsockets"]
    ELSE subsocket_open(path_rem_port(m, pa), T, s, pa, path_indices, failing, i)

init_subsockets_loop(m, T, path_indices, failing, i) ==
    IF i >= 32 THEN [m |-> m, T |-> T, bug |-> "none"]
    ELSE IF (i + 1) \notin path_indices
    THEN init_subsockets_loop(m, T, path_indices, failing, i + 1)
    ELSE subsocket_path(m, T, free_sock(T), mptcp_get_path4(m, i + 1),
                        path_indices, failing, i)

mptcp_init_subsockets(m, T, path_indices, failing) ==
    IF ~T[m.master_sk].mpc THEN [m |-> m, T |-> T, bug |-> "mptcp_init_subsockets"]
    ELSE init_subsockets_loop(m, T,
            path_indices \ existing_path_indices(m.connection_list, T), failing, 0)

\* __mptcp_send_updatenotif
mptcp_send_updatenotif(m, T, failing) ==
    mptcp_init_subsockets(m, T,
        PI_TO_FLAG(1) \cup UNION {PI_TO_FLAG(m.pa4[i].path_index) : i \in 1..Len(m.pa4)},
        failing)

(***************************************************************************)
(* mptcp_subflow_attach: gives the child socket of a completed join its    *)
(* path index and attaches it.                                             *)
(***************************************************************************)
sock_loc(t) == [id |-> t.loc_id, port |-> t.sport]
sock_rem(t) == [id |-> t.rem_id, port |-> t.dport]

\* p4 = find_path_mapping4(&loc, &rem, mpcb), bypassed in multiports mode
attach_find(m, t, ndiffports) ==
    IF ndiffports > 1 THEN 0 ELSE find_path_mapping4(sock_loc(t), sock_rem(t), m)

\* if (!p4 && !p6): the local addresses and the path array are rebuilt
attach_refresh(m, T, s, ndiffports, ifa) ==
    IF ndiffports > 1 \/ attach_find(m, T[s], ndiffports) # 0 THEN m
    ELSE patharray_if_addrs(mptcp_set_addresses(m, T[m.master_sk], ndiffports, ifa),
                            ndiffports)

\* the subflow gets the path index of path p4, or the next unused one
attach_index(m, T, s, p4) ==
    mptcp_add_sock(
        IF p4 # 0
        THEN [m EXCEPT !.pa4[p4].loc_port = T[s].sport, !.pa4[p4].rem_port = T[s].dport]
        ELSE [m EXCEPT !.next_unused_pi = m.next_unused_pi + 1],
        [T EXCEPT ![s].path_index = IF p4 # 0 THEN m.pa4[p4].path_index
                                    ELSE m.next_unused_pi],
        s)

attach_refreshed(m, T, s, ndiffports) ==
    attach_index(m, T, s, attach_find(m, T[s], ndiffports))

mptcp_subflow_attach(m, T, s, ndiffports, ifa) ==
    attach_refreshed(attach_refresh(m, T, s, ndiffports, ifa), T, s, ndiffports)

(***************************************************************************)
(* The token hashtable.                                                    *)
(***************************************************************************)
MPTCP_HASH_SIZE == 16

\* stands for jhash_1word of linux/jhash.h: a fixed function of the token
\* under which small tokens collide
jhash_1word(a, initval) == a * a + initval

hash_tk(token) == jhash_1word(token, 0) % MPTCP_HASH_SIZE

\* a token that does not depend on the counter
mptcp_new_token_fixed(latest) == 1

\* mptcp_new_token: atomic_inc_return(&latest_token)
mptcp_new_token(latest) == latest + 1

\* mptcp_hash_insert: list_add at the head of the token's bucket
mptcp_hash_insert(ht, i, token) ==
    [ht EXCEPT ![hash_tk(token)] = <<i>> \o ht[hash_tk(token)]]

\* mptcp_hash_find: the first MCB of the bucket with that token, 0 for NULL
mptcp_hash_find(ht, mcbs, token) ==
    LET bucket == ht[hash_tk(token)]
        i == FirstIndex(bucket, LAMBDA x : mcbs[x].loc_token = token)
    IN IF i = 0 THEN 0 ELSE bucket[i]

\* mptcp_hash_remove: list_del(&mpcb->collide_tk)
mptcp_hash_remove(ht, i) == [b \in DOMAIN ht |-> list_del(ht[b], i)]

\* list_del_init(&cur_ref->collide_tuple) for every request of the table:
\* they leave the tuple hashtable and stay in the meta socket's own table
unhash_requests(reqs) == [k \in 1..Len(reqs) |-> [reqs[k] EXCEPT !.hashed = FALSE]]

\* mptcp_hash_remove, "Remove all pending request socks": the table is
\* walked only if (lopt->qlen != 0)
hash_remove_requests_always(m) == unhash_requests(m.syn_table)
hash_remove_requests(m) ==
    IF m.qlen # 0 THEN unhash_requests(m.syn_table) ELSE m.syn_table

(***************************************************************************)
(* mptcp_alloc_mpcb: the MCB as the function leaves it.  The meta socket   *)
(* is a copy of the master socket (mptcp_inherit_sk) with the fields the   *)
(* function sets.                                                          *)
(***************************************************************************)
mpcb_zero ==
    [ allocated |-> FALSE, mpc |-> FALSE, sk_state |-> "CLOSE", sock_dead |-> FALSE,
      copied_seq |-> 0, rcv_nxt |-> 0,
      sk_receive_queue |-> <<>>, out_of_order_queue |-> <<>>,
      rcv_shutdown |-> FALSE, sock_done |-> FALSE,
      sk_rcvbuf |-> 0, sk_sndbuf |-> 0, window_clamp |-> 0, rcv_ssthresh |-> 0,
      master_sk |-> 0, connection_list |-> <<>>, cnt_subflows |-> 0,
      cnt_established |-> 0, next_unused_pi |-> 0, mptcp_loc_token |-> 0,
      dss_csum |-> FALSE, dfin_rcvd |-> FALSE, fin_dsn |-> 0,
      inet_saddr |-> 0, inet_sport |-> 0, inet_daddr |-> 0, inet_dport |-> 0,
      addr4 |-> <<>>, addr4_unsent |-> 0, raddr4 |-> <<>>, list_rcvd |-> FALSE,
      addr6 |-> <<>>, addr6_unsent |-> 0,
      pa4 |-> <<>>, pa4_alloc |-> FALSE, syn_table |-> <<>>, qlen |-> 0,
      reinject_queue |-> <<>>, noneligible |-> {},
      sk_write_queue |-> <<>>, write_seq |-> 0,
      sk_backlog |-> <<>>,
      rtx_queue |-> <<>>, send_head |-> 0,
      snd_una |-> 0, snd_nxt |-> 0, packets_out |-> 0 ]

mptcp_alloc_mpcb(master_sk, master, token, checksum) ==
    [ mpcb_zero EXCEPT
        !.allocated = TRUE,
        !.inet_saddr = master.saddr, !.inet_sport = master.sport,
        !.inet_daddr = master.daddr, !.inet_dport = master.dport,
        !.copied_seq = 0, !.rcv_nxt = 0,
        !.mpc = TRUE,
        !.sk_rcvbuf = sysctl_rmem_default,
        !.sk_sndbuf = sysctl_wmem_default,
        !.sk_state = "SYN_SENT",
        !.master_sk = master_sk,
        !.window_clamp = master.window_clamp,
        !.rcv_ssthresh = master.rcv_ssthresh,
        !.next_unused_pi = 2,
        !.mptcp_loc_token = token,
        !.dss_csum = checksum ]

(***************************************************************************)
(* The scheduler.  A segment on a write queue is the record of its data    *)
(* sequence number and of its path_mask; a path_mask, like every mask of   *)
(* path-index bits, is the set of the path indices whose bit is set.       *)
(***************************************************************************)
\* 0xffffffff, the largest u32, is written -1 (the integers of the model
\* end below it); u32_less is < on u32 with this encoding
U32_MAX == -1

u32_less(a, b) ==
    IF b = U32_MAX THEN a # U32_MAX
    ELSE IF a = U32_MAX THEN FALSE
    ELSE a < b

\* in_flight is packets_out: nothing is marked lost or retransmitted here
tcp_cwnd_test(t) ==
    IF t.packets_out < t.snd_cwnd
    THEN t.snd_cwnd - t.packets_out
    ELSE 0

mptcp_is_available(m, t) ==
    IF t.sk_state \notin {"ESTABLISHED", "CLOSE_WAIT"} THEN FALSE
    ELSE IF t.pf
            \/ m.noneligible \cap PI_TO_FLAG(t.path_index) # {}
            \/ t.icsk_ca_state = "Loss" THEN FALSE
    ELSE tcp_cwnd_test(t) # 0

\* if (PI_TO_FLAG(tp->path_index) & skb->path_mask) continue;
already_enqueued_never(t, skb) == FALSE
already_enqueued(t, skb) == PI_TO_FLAG(t.path_index) \cap skb.path_mask # {}

\* the loop of get_available_subflow over the connection list; 0 is NULL
RECURSIVE best_subflow(_, _, _, _, _, _)
best_subflow(list, m, T, skb, bestsk, min_time_to_peer) ==
    IF list = <<>> THEN bestsk
    ELSE IF ~mptcp_is_available(m, T[Head(list)])
    THEN best_subflow(Tail(list), m, T, skb, bestsk, min_time_to_peer)
    ELSE IF already_enqueued(T[Head(list)], skb)
    THEN best_subflow(Tail(list), m, T, skb, bestsk, min_time_to_peer)
    ELSE IF u32_less(T[Head(list)].srtt, min_time_to_peer)
    THEN best_subflow(Tail(list), m, T, skb, Head(list), T[Head(list)].srtt)
    ELSE best_subflow(Tail(list), m, T, skb, bestsk, min_time_to_peer)

get_available_subflow(m, T, skb) ==
    IF ~m.allocated THEN 0
    ELSE IF m.cnt_subflows = 1
    THEN IF mptcp_is_available(m, T[Head(m.connection_list)])
         THEN Head(m.connection_list)
         ELSE 0
    ELSE best_subflow(m.connection_list, m, T, skb, 0, U32_MAX)

\* mptcp_next_segment(meta_sk): the segment and *reinject; no segment is <<>>
mptcp_next_segment(m) ==
    IF m.reinject_queue # <<>>
    THEN [skb |-> <<Head(m.reinject_queue)>>, reinject |-> 1]
    ELSE [skb |-> SubSeq(m.sk_write_queue, 1, Min(1, Len(m.sk_write_queue))),
          reinject |-> 0]

(***************************************************************************)
(* Reinjection.  skb_clone fails when clone_ok is false.                   *)
(***************************************************************************)
reinject_candidate(orig_skb, m, T) ==
    \E k \in 1..Len(m.connection_list) :
        /\ T[m.connection_list[k]].sk_state = "ESTABLISHED"
        /\ PI_TO_FLAG(T[m.connection_list[k]].path_index) \cap orig_skb.path_mask = {}

\* __mptcp_reinject_data; -1 stands for -ENOBUFS
mptcp_reinject_data_skb(orig_skb, m, T, clone_ok) ==
    IF ~reinject_candidate(orig_skb, m, T) THEN [ans |-> 1, m |-> m]
    ELSE IF ~clone_ok THEN [ans |-> -1, m |-> m]
    ELSE [ans |-> 0,
          m |-> [m EXCEPT !.reinject_queue = Append(m.reinject_queue, orig_skb)]]

\* skb_it->path_mask |= PI_TO_FLAG(orig_tp->path_index)
mark_path_none(skb, pi) == skb
mark_path(skb, pi) == [skb EXCEPT !.path_mask = skb.path_mask \cup PI_TO_FLAG(pi)]

\* tcp_for_write_queue of mptcp_reinject_data from segment k on; the clone
\* of segment fail_at fails (fail_at = 0: no clone fails)
RECURSIVE reinject_loop(_, _, _, _, _, _)
reinject_step(r, wq, k, T, pi, fail_at) ==
    IF r.ans < 0 THEN [m |-> r.m, wq |-> wq]
    ELSE reinject_loop(wq, k + 1, r.m, T, pi, fail_at)

reinject_loop(wq, k, m, T, pi, fail_at) ==
    IF k > Len(wq) THEN [m |-> m, wq |-> wq]
    ELSE reinject_step(mptcp_reinject_data_skb(mark_path(wq[k], pi), m, T, k # fail_at),
                       [wq EXCEPT ![k] = mark_path(wq[k], pi)], k, T, pi, fail_at)

\* mptcp_reinject_data(orig_sk): the MCB and the sockets afterwards
reinject_result(l, T, f) ==
    [m |-> l.m,
     T |-> [T EXCEPT ![f].sk_write_queue = l.wq, ![f].pf = TRUE]]

mptcp_reinject_data(m, T, f, fail_at) ==
    reinject_result(reinject_loop(T[f].sk_write_queue, 1, m, T, T[f].path_index, fail_at),
                    T, f)

(***************************************************************************)
(* The state machine.                                                      *)
(***************************************************************************)
Mcbs == 1..NumMcb
Buckets == 0..(MPTCP_HASH_SIZE - 1)

\* the record of the last call
no_call == [op |-> "none", s |-> 0, ans |-> 0, calls |-> <<>>,
            peek |-> FALSE, len |-> 0, pre_copied_seq |-> 0, pre_receive_queue |-> <<>>,
            out |-> <<>>,
            was_attached |-> FALSE, pre_connection_list |-> <<>>, pre_cnt_subflows |-> 0,
            skb |-> <<>>, reinject |-> 0, fail_at |-> 0, pre_mpcb |-> <<>>, pre_tp |-> <<>>,
            arg |-> <<>>, res |-> <<>>]

\* the host has the addresses of one of `lists`, address 1 is the one the
\* master uses
HostInit(lists) ==
    /\ sysctl_mptcp_ndiffports \in {1, 2}
    /\ sysctl_mptcp_checksum = TRUE
    /\ ifa_list \in lists
    /\ mpcb = mpcb_zero
    /\ tp = [s \in Socks |-> sock_zero(s)]
    /\ bug = "none"
    /\ delivered = <<>>
    /\ ret = no_call
    /\ arrivals = 0
    /\ latest_token = 0
    /\ tk_hashtable = [b \in Buckets |-> <<>>]
    /\ tk_mcb = [i \in Mcbs |-> [state |-> "none", master_token |-> 0, loc_token |-> 0]]
    /\ pm_events = 0
    /\ pc = [close |-> "idle", wq |-> "idle"]

Init == HostInit({<<1>>, <<1, 2>>})

\* the master socket of MCB 1 is socket 1
MasterSk == 1

\* the application opens the socket that becomes the master of MCB i
Socket(i) ==
    /\ bug = "none"
    /\ tk_mcb[i].state = "none"
    /\ tk_mcb' = [tk_mcb EXCEPT ![i].state = "sock"]
    /\ tp' = IF i = 1 /\ ~tp[MasterSk].open
             THEN [tp EXCEPT ![MasterSk] = [sock_zero(MasterSk) EXCEPT
                        !.open = TRUE, !.saddr = 1, !.sport = 40,
                        !.daddr = 11, !.dport = 50, !.sk_state = "SYN_SENT",
                        !.sk_refcnt = 1]]
             ELSE tp
    /\ ret' = [no_call EXCEPT !.op = "socket", !.s = i]
    /\ UNCHANGED <<pc, sysctl_mptcp_ndiffports, sysctl_mptcp_checksum, ifa_list, mpcb, bug,
                   delivered, arrivals, latest_token, tk_hashtable, pm_events>>

\* server side: the SYN-ACK path of the master gives it its token before the
\* MCB exists
ServerToken(i) ==
    /\ bug = "none"
    /\ tk_mcb[i].state = "sock"
    /\ tk_mcb[i].master_token = 0
    /\ latest_token < MaxToken
    /\ latest_token' = mptcp_new_token(latest_token)
    /\ tk_mcb' = [tk_mcb EXCEPT ![i].master_token = mptcp_new_token(latest_token)]
    /\ ret' = [no_call EXCEPT !.op = "mptcp_new_token", !.s = i,
                              !.ans = mptcp_new_token(latest_token)]
    /\ UNCHANGED <<pc, sysctl_mptcp_ndiffports, sysctl_mptcp_checksum, ifa_list, mpcb, tp, bug,
                   delivered, arrivals, tk_hashtable, pm_events>>

\* mptcp_alloc_mpcb(master_sk) for the master of MCB i
AllocMpcb(i) ==
    LET fresh == tk_mcb[i].master_token = 0
        token == IF fresh THEN mptcp_new_token(latest_token) ELSE tk_mcb[i].master_token
    IN  /\ bug = "none"
        /\ tk_mcb[i].state = "sock"
        /\ fresh => latest_token < MaxToken
        /\ latest_token' = IF fresh THEN mptcp_new_token(latest_token) ELSE latest_token
        /\ tk_mcb' = [tk_mcb EXCEPT ![i] = [state |-> "alive", master_token |-> token,
                                            loc_token |-> token]]
        /\ tk_hashtable' = mptcp_hash_insert(tk_hashtable, i, token)
        /\ mpcb' = IF i = 1
                   THEN mptcp_alloc_mpcb(MasterSk, tp[MasterSk], token, sysctl_mptcp_checksum)
                   ELSE mpcb
        /\ tp' = IF i = 1
                 THEN [tp EXCEPT ![MasterSk].path_index = 0, ![MasterSk].mpcb = TRUE,
                                 ![MasterSk].sk_refcnt = tp[MasterSk].sk_refcnt + 1]
                 ELSE tp
        /\ ret' = [no_call EXCEPT !.op = "mptcp_alloc_mpcb", !.s = i, !.ans = token]
        /\ UNCHANGED <<pc, sysctl_mptcp_ndiffports, sysctl_mptcp_checksum, ifa_list, bug,
                       delivered, arrivals, pm_events>>

\* mptcp_hash_find(token), as mptcp_lookup_join calls it for a JOIN
HashFind(token) ==
    /\ bug = "none"
    /\ ret' = [no_call EXCEPT !.op = "mptcp_hash_find", !.s = token,
                              !.ans = mptcp_hash_find(tk_hashtable, tk_mcb, token)]
    /\ UNCHANGED <<pc, sysctl_mptcp_ndiffports, sysctl_mptcp_checksum, ifa_list, mpcb, tp, bug,
                   delivered, arrivals, latest_token, tk_hashtable, tk_mcb, pm_events>>

\* the handshake of the master ends with both sides MPTCP capable: the
\* master becomes a subflow of its MCB.  st is the TCP state it has then.
MasterAttach(st) ==
    LET t1 == [tp[MasterSk] EXCEPT !.mpc = TRUE, !.sk_state = st]
        m1 == mptcp_update_metasocket(mpcb, t1, sysctl_mptcp_ndiffports, ifa_list)
        a == mptcp_add_sock(m1, [tp EXCEPT ![MasterSk] = t1], MasterSk)
    IN  /\ bug = "none"
        /\ tk_mcb[1].state = "alive"
        /\ tp[MasterSk].open /\ tp[MasterSk].mpcb /\ ~tp[MasterSk].mpc
        /\ m1.next_unused_pi <= MaxPathIndex + 1
        /\ mpcb' = a.m
        /\ tp' = a.T
        /\ bug' = a.bug
        /\ ret' = [no_call EXCEPT !.op = "mptcp_add_sock", !.s = MasterSk, !.calls = a.calls,
                                  !.arg = st,
                                  !.pre_connection_list = mpcb.connection_list,
                                  !.pre_cnt_subflows = mpcb.cnt_subflows]
        /\ UNCHANGED <<pc, sysctl_mptcp_ndiffports, sysctl_mptcp_checksum, ifa_list,
                       delivered, arrivals, latest_token, tk_hashtable, tk_mcb, pm_events>>

\* the TCP handshake of subflow s completes
Established(s) ==
    /\ bug = "none"
    /\ tp[s].open /\ tp[s].attached
    /\ tp[s].sk_state \in {"SYN_SENT", "SYN_RECV"}
    /\ tp' = [tp EXCEPT ![s].sk_state = "ESTABLISHED"]
    /\ ret' = [no_call EXCEPT !.op = "tcp_set_state", !.s = s]
    /\ UNCHANGED <<pc, sysctl_mptcp_ndiffports, sysctl_mptcp_checksum, ifa_list, mpcb, bug,
                   delivered, arrivals, latest_token, tk_hashtable, tk_mcb, pm_events>>

\* mptcp_destroy_mpcb
mptcp_destroy_mpcb(m) ==
    [m EXCEPT !.syn_table = hash_remove_requests(m), !.sock_dead = TRUE]

\* mptcp_close(master_sk) on the master of MCB i, up to the flush of the
\* meta receive queue
Close(i) ==
    /\ bug = "none"
    /\ tk_mcb[i].state = "alive"
    /\ i = 1 => tp[MasterSk].mpc
    /\ tk_hashtable' = mptcp_hash_remove(tk_hashtable, i)
    /\ tk_mcb' = [tk_mcb EXCEPT ![i].state = "dead"]
    /\ mpcb' = IF i = 1
               THEN [mptcp_destroy_mpcb(mpcb) EXCEPT !.rcv_shutdown = TRUE,
                                                     !.sk_receive_queue = <<>>]
               ELSE mpcb
    /\ tp' = IF i = 1
             THEN [tp EXCEPT ![MasterSk].sk_refcnt = tp[MasterSk].sk_refcnt - 1]
             ELSE tp
    /\ ret' = [no_call EXCEPT !.op = "mptcp_close", !.s = i]
    /\ UNCHANGED <<pc, sysctl_mptcp_ndiffports, sysctl_mptcp_checksum, ifa_list, bug,
                   delivered, arrivals, latest_token, pm_events>>

\* mpcb_release: the pending requests are freed (mptcp_pm_release), then
\* the MCB; the memory keeps what it held
mpcb_release(m) ==
    [m EXCEPT !.syn_table = IF m.qlen # 0 THEN <<>> ELSE m.syn_table,
              !.qlen = 0, !.allocated = FALSE]

\* the master socket of the destroyed MCB i ends: inet_csk_destroy_sock
\* detaches it and drops the socket's own reference; when that was the last
\* one the socket is freed and with it the MCB (mptcp_sock_destruct,
\* mpcb_release)
Release(i) ==
    /\ bug = "none"
    /\ tk_mcb[i].state = "dead"
    /\ i = 1 => /\ tp[MasterSk].sk_refcnt = 1
                /\ mptcp_del_sock(mpcb, tp, MasterSk).bug = "none"
    /\ tk_mcb' = [tk_mcb EXCEPT ![i] = [state |-> "none", master_token |-> 0,
                                        loc_token |-> 0]]
    /\ mpcb' = IF i = 1 THEN mpcb_zero ELSE mpcb
    /\ tp' = IF i = 1 THEN [tp EXCEPT ![MasterSk] = sock_zero(MasterSk)] ELSE tp
    /\ ret' = [no_call EXCEPT !.op = "mpcb_release", !.s = i]
    /\ UNCHANGED <<pc, sysctl_mptcp_ndiffports, sysctl_mptcp_checksum, ifa_list, bug,
                   delivered, arrivals, latest_token, tk_hashtable, pm_events>>

\* __mptcp_fallback(master_sk): the connection falls back to regular TCP,
\* because the peer did not echo MP_CAPABLE or on a mapping fault, before
\* any subflow has joined
Fallback ==
    /\ bug = "none"
    /\ tk_mcb[1].state = "alive"
    /\ tp[MasterSk].open /\ tp[MasterSk].mpcb
    /\ ~mpcb.sock_dead
    /\ \A s \in Socks \ {MasterSk} : ~(tp[s].open /\ tp[s].mpcb)
    /\ tk_hashtable' = mptcp_hash_remove(tk_hashtable, 1)
    /\ tk_mcb' = [tk_mcb EXCEPT ![1].state = "tcp"]
    /\ mpcb' = mpcb_release(mptcp_destroy_mpcb(mpcb))
    /\ tp' = [tp EXCEPT ![MasterSk].mpcb = FALSE,
                        ![MasterSk].sk_refcnt = tp[MasterSk].sk_refcnt - 1]
    /\ ret' = [no_call EXCEPT !.op = "mptcp_fallback", !.s = MasterSk,
                              !.was_attached = tp[MasterSk].attached,
                              !.pre_connection_list = mpcb.connection_list,
                              !.pre_cnt_subflows = mpcb.cnt_subflows]
    /\ UNCHANGED <<pc, sysctl_mptcp_ndiffports, sysctl_mptcp_checksum, ifa_list, bug,
                   delivered, arrivals, latest_token, pm_events>>

\* mptcp_del_sock(s); the master leaves only after mptcp_close
DelSock(s) ==
    LET d == mptcp_del_sock(mpcb, tp, s)
    IN  /\ bug = "none"
        /\ tp[s].open /\ tp[s].mpcb
        /\ s = MasterSk => mpcb.sock_dead
        /\ mpcb' = d.m
        /\ tp' = d.T
        /\ bug' = d.bug
        /\ ret' = [no_call EXCEPT !.op = "mptcp_del_sock", !.s = s,
                                  !.was_attached = tp[s].attached,
                                  !.pre_connection_list = mpcb.connection_list,
                                  !.pre_cnt_subflows = mpcb.cnt_subflows]
        /\ UNCHANGED <<pc, sysctl_mptcp_ndiffports, sysctl_mptcp_checksum, ifa_list,
                       delivered, arrivals, latest_token, tk_hashtable, tk_mcb, pm_events>>

\* the TCP state machine of slave subflow s ends: inet_csk_destroy_sock
\* detaches it and the socket is freed
Destroy(s) ==
    LET d == sock_release(mpcb, tp, s)
    IN  /\ bug = "none"
        /\ s # MasterSk
        /\ tp[s].open /\ tp[s].mpcb
        /\ mpcb' = d.m
        /\ tp' = d.T
        /\ bug' = d.bug
        /\ ret' = [no_call EXCEPT !.op = "inet_csk_destroy_sock", !.s = s,
                                  !.was_attached = tp[s].attached,
                                  !.pre_connection_list = mpcb.connection_list,
                                  !.pre_cnt_subflows = mpcb.cnt_subflows]
        /\ UNCHANGED <<pc, sysctl_mptcp_ndiffports, sysctl_mptcp_checksum, ifa_list,
                       delivered, arrivals, latest_token, tk_hashtable, tk_mcb, pm_events>>

(***************************************************************************)
(* Path manager and join engine.                                           *)
(***************************************************************************)
\* the sockets mptcp_init_subsockets would open
new_path_indices(m, T) ==
    ({1} \cup {m.pa4[i].path_index : i \in 1..Len(m.pa4)})
        \ existing_path_indices(m.connection_list, T)

free_socks(T) == {s \in Socks : ~T[s].open}

\* an ADD_ADDR option arrives on an established subflow: mptcp_parse_options
\* stores the address, mptcp_path_array_check rebuilds the path array and
\* opens the new subflows
AddAddrOn(max, addr, port, id, failing) ==
    LET r == mptcp_v4_add_raddress(mpcb, addr, port, id)
        m1 == IF r.m.list_rcvd
              THEN mptcp_update_patharray([r.m EXCEPT !.list_rcvd = FALSE],
                                          sysctl_mptcp_ndiffports)
              ELSE r.m
        n == IF r.m.list_rcvd THEN mptcp_send_updatenotif(m1, tp, failing)
             ELSE [m |-> m1, T |-> tp, bug |-> "none"]
    IN  /\ bug = "none"
        /\ pm_events < max
        /\ pm_events' = pm_events + 1
        /\ m1.next_unused_pi <= MaxPathIndex + 1
        /\ r.m.list_rcvd => /\ Cardinality(new_path_indices(m1, tp))
                                  <= Cardinality(free_socks(tp))
                            /\ failing \subseteq new_path_indices(m1, tp)
        /\ ~r.m.list_rcvd => failing = {}
        /\ mpcb' = n.m
        /\ tp' = n.T
        /\ bug' = n.bug
        /\ ret' = [no_call EXCEPT !.op = "mptcp_v4_add_raddress", !.ans = r.ans,
                                  !.pre_connection_list = mpcb.connection_list,
                                  !.pre_cnt_subflows = mpcb.cnt_subflows,
                                  !.arg = [id |-> id, addr |-> addr, port |-> port],
                                  !.pre_mpcb = mpcb, !.res = r.m]
        /\ UNCHANGED <<pc, sysctl_mptcp_ndiffports, sysctl_mptcp_checksum, ifa_list,
                       delivered, arrivals, latest_token, tk_hashtable, tk_mcb>>

\* an ADD_ADDR received while the master subflow is attached and the
\* application has not closed
AddAddrUpTo(max, addr, port, id, failing) ==
    /\ tp[MasterSk].attached /\ ~mpcb.sock_dead
    /\ AddAddrOn(max, addr, port, id, failing)

AddAddr(addr, port, id, failing) == AddAddrUpTo(MaxPmEvents, addr, port, id, failing)

\* mptcp_get_loc_addrid: the id of local address saddr, -1 for BUG()
mptcp_get_loc_addrid(m, master, saddr) ==
    LET i == FirstIndex(m.addr4, LAMBDA a : a.addr = saddr)
    IN  IF i # 0 THEN m.addr4[i].id
        ELSE IF master.saddr # saddr THEN -1
        ELSE 0

\* mptcp_v4_join_request: the request socket of a JOIN
mptcp_v4_join_request_any(m, saddr, sport, daddr, rem_id, synack_sent) ==
    [m EXCEPT !.syn_table = Append(m.syn_table,
                [rmt_addr |-> saddr, rmt_port |-> sport, loc_addr |-> daddr,
                 rem_id |-> rem_id, hashed |-> TRUE])]

\* synack_sent: mptcp_v4_send_synack returned 0
mptcp_v4_join_request(m, saddr, sport, daddr, rem_id, synack_sent) ==
    IF ~synack_sent THEN m
    ELSE
    [m EXCEPT !.syn_table = Append(m.syn_table,
                [rmt_addr |-> saddr, rmt_port |-> sport, loc_addr |-> daddr,
                 rem_id |-> rem_id, hashed |-> TRUE])]

\* a SYN with MP_JOIN and the token of the MCB arrives from saddr:sport at
\* local address daddr: mptcp_lookup_join finds the MCB, mptcp_v4_do_rcv
\* handles the SYN
ENOKEY == 126

\* mptcp_lookup_join after mptcp_hash_find: with no MCB of that token the
\* SYN is answered by -ENOKEY; with one, tcp_v4_do_rcv on the meta socket
\* leaves MCB done and the answer of mptcp_v4_add_raddress
\* sock_owned_by_user(sk): a user task holds the socket lock
sock_owned_by_user(T, sk) == T[sk].owned

\* sk_add_backlog(meta_sk, skb) and what the JOIN code does with its result:
\* the segment waits on the backlog of the meta socket, or is dropped when
\* the backlog is full
sock_hold(T, sk) == [T EXCEPT ![sk].sk_refcnt = T[sk].sk_refcnt + 1]
sock_put(T, sk, n) == [T EXCEPT ![sk].sk_refcnt = T[sk].sk_refcnt - n]

join_backlog(m, skb) ==
    IF Len(m.sk_backlog) >= MaxBacklog
    THEN [m |-> m, ans |-> 1, op |-> "kfree_skb", puts |-> 1]
    ELSE [m |-> [m EXCEPT !.sk_backlog = Append(m.sk_backlog, skb)],
          ans |-> 1, op |-> "sk_add_backlog", puts |-> 1]

mptcp_lookup_join_found(found, owned, m, skb, done, ans) ==
    IF owned THEN join_backlog(m, skb)
    ELSE [m |-> done, ans |-> ans, op |-> "mptcp_v4_do_rcv", puts |-> 1]
mptcp_lookup_join(found, owned, m, skb, done, ans) ==
    IF ~found THEN [m |-> m, ans |-> -ENOKEY, op |-> "mptcp_lookup_join", puts |-> 0]
    ELSE IF owned THEN join_backlog(m, skb)
    ELSE [m |-> done, ans |-> ans, op |-> "mptcp_v4_do_rcv", puts |-> 1]

JoinSynUpTo(max, saddr, sport, daddr, addr_id, synack_sent) ==
    LET r == mptcp_v4_add_raddress(mpcb, saddr, 0, addr_id)
        m1 == IF r.m.list_rcvd
              THEN mptcp_update_patharray([r.m EXCEPT !.list_rcvd = FALSE],
                                          sysctl_mptcp_ndiffports)
              ELSE r.m
        m2 == IF r.ans < 0 THEN r.m
              ELSE mptcp_v4_join_request(m1, saddr, sport, daddr, addr_id, synack_sent)
        found == mptcp_hash_find(tk_hashtable, tk_mcb, mpcb.mptcp_loc_token) = 1
        l == mptcp_lookup_join(found, sock_owned_by_user(tp, MasterSk), mpcb,
                               [syn |-> TRUE, saddr |-> saddr, sport |-> sport,
                                daddr |-> daddr],
                               m2, r.ans)
    IN  /\ bug = "none"
        /\ pm_events < max.ev
        /\ pm_events' = pm_events + 1
        /\ mpcb.allocated
        /\ tp[MasterSk].attached
        /\ Len(mpcb.syn_table) < max.reqs
        /\ mptcp_get_loc_addrid(mpcb, tp[MasterSk], daddr) >= 0
        /\ \A s \in Socks : tp[s].open =>
              <<tp[s].daddr, tp[s].dport, tp[s].saddr>> # <<saddr, sport, daddr>>
        /\ m1.next_unused_pi <= max.pi + 1
        /\ mpcb' = l.m
        /\ tp' = sock_put(IF found THEN sock_hold(tp, MasterSk) ELSE tp, MasterSk, l.puts)
        /\ ret' = [no_call EXCEPT !.op = l.op, !.ans = l.ans,
                                  !.arg = [token |-> mpcb.mptcp_loc_token,
                                           synack_sent |-> synack_sent],
                                  !.pre_mpcb = mpcb, !.pre_tp = tp]
        /\ UNCHANGED <<pc, sysctl_mptcp_ndiffports, sysctl_mptcp_checksum, ifa_list, bug,
                       delivered, arrivals, latest_token, tk_hashtable, tk_mcb>>

JoinSyn(saddr, sport, daddr, addr_id) ==
    JoinSynUpTo([ev |-> MaxPmEvents, pi |-> MaxPathIndex, reqs |-> MaxReqs],
                saddr, sport, daddr, addr_id, TRUE)

\* mptcp_v4_search_req: the first hashed request of that remote port, remote
\* address and local address, 0 for NULL
mptcp_v4_search_req(reqs, rport, raddr, laddr) ==
    FirstIndex(reqs, LAMBDA q : q.hashed /\ q.rmt_port = rport /\ q.rmt_addr = raddr
                                         /\ q.loc_addr = laddr)

\* the final ACK of a JOIN arrives: mptcp_syn_recv_sock finds the request,
\* tcp_check_req makes the child socket, mptcp_v4_do_rcv attaches it and
\* tcp_child_process completes its handshake.  A request left in the tuple
\* hashtable by an MCB that was freed has a dangling req->mpcb: the kernel
\* stops being defined
JoinAckUpTo(maxpi, rport, raddr, laddr) ==
    LET k == mptcp_v4_search_req(mpcb.syn_table, rport, raddr, laddr)
        req == mpcb.syn_table[k]
        s == free_sock(tp)
        loc_id == mptcp_get_loc_addrid(mpcb, tp[MasterSk], req.loc_addr)
        child == [sock_zero(s) EXCEPT
                    !.open = TRUE, !.mpc = TRUE, !.slave_sk = TRUE,
                    !.sk_state = "SYN_RECV",
                    !.saddr = req.loc_addr, !.sport = mpcb.inet_sport,
                    !.daddr = req.rmt_addr, !.dport = req.rmt_port,
                    !.loc_id = loc_id, !.rem_id = req.rem_id]
        m1 == [mpcb EXCEPT !.syn_table = sk_eat_skb(mpcb.syn_table, k)]
        a == mptcp_subflow_attach(m1, [tp EXCEPT ![s] = child], s,
                                  sysctl_mptcp_ndiffports, ifa_list)
        owned == mpcb.allocated /\ sock_owned_by_user(tp, MasterSk)
        b == join_backlog(mpcb, [syn |-> FALSE, saddr |-> raddr, sport |-> rport,
                                 daddr |-> laddr])
    IN  /\ bug = "none"
        /\ k # 0
        /\ free_socks(tp) # {}
        /\ mpcb.next_unused_pi <= maxpi
        /\ mpcb' = IF ~mpcb.allocated THEN mpcb ELSE IF owned THEN b.m ELSE a.m
        /\ tp' = IF ~mpcb.allocated THEN tp
                 ELSE IF owned THEN sock_put(sock_hold(tp, MasterSk), MasterSk, b.puts)
                 ELSE IF a.bug = "none"
                 THEN sock_put(sock_hold([a.T EXCEPT ![s].sk_state = "ESTABLISHED"],
                                         MasterSk), MasterSk, 1)
                 ELSE sock_put(sock_hold(a.T, MasterSk), MasterSk, 1)
        /\ bug' = IF ~mpcb.allocated THEN "req->mpcb freed"
                  ELSE IF owned THEN bug
                  ELSE IF loc_id < 0 THEN "mptcp_get_loc_addrid" ELSE a.bug
        /\ ret' = IF owned
                  THEN [no_call EXCEPT !.op = b.op, !.ans = b.ans,
                                       !.pre_mpcb = mpcb, !.pre_tp = tp]
                  ELSE [no_call EXCEPT !.op = "mptcp_subflow_attach", !.s = s,
                                  !.calls = a.calls, !.arg = child.sk_state,
                                  !.pre_connection_list = mpcb.connection_list,
                                  !.pre_cnt_subflows = mpcb.cnt_subflows,
                                  !.pre_mpcb = mpcb, !.pre_tp = tp]
        /\ UNCHANGED <<pc, sysctl_mptcp_ndiffports, sysctl_mptcp_checksum, ifa_list,
                       delivered, arrivals, latest_token, tk_hashtable, tk_mcb, pm_events>>

JoinAck(rport, raddr, laddr) == JoinAckUpTo(MaxPathIndex, rport, raddr, laddr)

(***************************************************************************)
(* The receive path.                                                       *)
(***************************************************************************)
\* a segment as tcp_v4_rcv hands it over: `pay` is the DSN the sender gave
\* its first payload byte, mapped/msub/mlen record the mapping under which
\* mptcp_get_dataseq_mapping derived its DSN
tcp_skb(seq, len, fin, F, pay) ==
    [ seq |-> seq, end_seq |-> seq + len + fin, len |-> len, fin |-> fin, F |-> F,
      data_seq |-> 0, sub_seq |-> 0, data_len |-> 0, end_data_seq |-> 0,
      dss_off |-> 0, csum_bad |-> FALSE,
      mapped |-> FALSE, msub |-> 0, mlen |-> 0, pay |-> pay ]

no_dss == [M |-> FALSE, F |-> FALSE, data_seq |-> 0, sub_seq |-> 0, data_len |-> 0]

\* the segments the peer may send next on subflow t: data under a new
\* mapping, the data FIN, data under the mapping sent before, a subflow FIN,
\* and a mapping with its data that was corrupted on the way (the DSS
\* checksum does not match)
Segments(t) ==
    LET seq == t.rcv_nxt
        rel == seq - t.rcv_isn
    IN   { [skb |-> tcp_skb(seq, len, 0, FALSE, D),
            opt |-> [M |-> TRUE, F |-> FALSE, data_seq |-> D, sub_seq |-> rel,
                     data_len |-> dl]] :
             <<D, dl, len>> \in
                { x \in (0..(StreamLen - 1)) \X (1..MaxMapLen) \X (1..MaxSegLen) :
                     x[1] + x[2] <= StreamLen /\ x[3] <= x[2] + 1 } }
    \cup { [skb |-> tcp_skb(seq, len, 1, TRUE, StreamLen - len),
            opt |-> [M |-> TRUE, F |-> TRUE, data_seq |-> StreamLen - len,
                     sub_seq |-> rel, data_len |-> len + 1]] :
             len \in 0..MaxSegLen }
    \cup { [skb |-> tcp_skb(seq, len, 0, FALSE,
                            t.snd_map_data_seq + (seq - t.snd_map_subseq)),
            opt |-> no_dss] : len \in 1..MaxSegLen }
    \cup { [skb |-> tcp_skb(seq, 0, 1, FALSE, 0), opt |-> no_dss] }
    \cup { [skb |-> [tcp_skb(seq, len, 0, FALSE, D) EXCEPT !.csum_bad = TRUE],
            opt |-> [M |-> TRUE, F |-> FALSE, data_seq |-> D, sub_seq |-> rel,
                     data_len |-> len]] :
             <<D, len>> \in
                { x \in (0..(StreamLen - 1)) \X (1..MaxMapLen) : x[1] + x[2] <= StreamLen } }

\* what the subflow's receive path does with a segment that is in subflow
\* order, as the loop at the end of mptcp_add_sock does it
data_queue_result(mpc, m, r) ==
    [m |-> r.m, t |-> r.t, bug |-> r.bug,
     calls |-> <<call_entry("mptcp_queue_skb", mpc, r.skb, r.ans, m, r.m)>>]

data_queue_mapped(m, g) ==
    IF g.bug # "none" \/ g.ans < 0
    THEN [m |-> m, t |-> g.t, bug |-> g.bug,
          calls |-> <<call_entry("mptcp_get_dataseq_mapping", TRUE, g.skb, g.ans, m, m)>>]
    ELSE data_queue_result(TRUE, m, mptcp_queue_skb(m, g.t, g.skb))

tcp_data_queue(m, t, skb) ==
    IF ~t.mpc
    THEN data_queue_result(FALSE, m, mptcp_queue_skb(m, t, skb))
    ELSE data_queue_mapped(m, mptcp_get_dataseq_mapping(m, t, skb))

\* a segment arrives in order on subflow s
Arrival(s, seg) ==
    LET p == mptcp_parse_options(mpcb, tp[s], seg.skb, seg.opt)
        t1 == IF seg.opt.M
              THEN [p.t EXCEPT !.snd_map_data_seq = seg.opt.data_seq,
                               !.snd_map_subseq = seg.skb.seq]
              ELSE p.t
        r == tcp_data_queue(p.m, t1, p.skb)
    IN  /\ bug = "none"
        /\ arrivals < MaxArrivals
        /\ mpcb.allocated /\ ~mpcb.sock_dead
        /\ tp[s].open /\ tp[s].mpcb /\ ~tp[s].fin_rcvd /\ ~tp[s].csum_error
        /\ \/ tp[s].attached /\ tp[s].sk_state = "ESTABLISHED"
           \/ s = MasterSk /\ ~tp[s].mpc
        /\ arrivals' = arrivals + 1
        /\ mpcb' = r.m
        /\ tp' = [tp EXCEPT ![s] = [r.t EXCEPT !.rcv_nxt = seg.skb.end_seq,
                                               !.fin_rcvd = (seg.skb.fin = 1)]]
        /\ bug' = r.bug
        /\ ret' = [no_call EXCEPT !.op = "tcp_data_queue", !.s = s, !.calls = r.calls,
                                  !.arg = [copied_seq |-> p.m.copied_seq,
                                           rcv_nxt |-> p.m.rcv_nxt, skb |-> p.skb],
                                  !.res = IF t1.mpc
                                          THEN mptcp_get_dataseq_mapping(p.m, t1, p.skb)
                                          ELSE <<>>]
        /\ UNCHANGED <<pc, sysctl_mptcp_ndiffports, sysctl_mptcp_checksum, ifa_list,
                       delivered, latest_token, tk_hashtable, tk_mcb, pm_events>>

\* the application reads up to len bytes: mptcp_check_rcv_queue copies from
\* the meta receive queue, from copied_seq on (from a copy of it when
\* peeking)
Read(len, peek) ==
    LET r == mptcp_check_rcv_queue(mpcb, mpcb.sk_receive_queue, mpcb.copied_seq,
                                   len, <<>>, peek)
    IN  /\ bug = "none"
        /\ mpcb.allocated /\ ~mpcb.sock_dead
        /\ tp[MasterSk].attached
        /\ mpcb' = [mpcb EXCEPT !.sk_receive_queue = r.q,
                                !.copied_seq = IF peek THEN mpcb.copied_seq
                                               ELSE r.data_seq]
        /\ delivered' = IF peek THEN delivered ELSE delivered \o r.out
        /\ bug' = r.bug
        /\ ret' = [no_call EXCEPT !.op = "mptcp_check_rcv_queue", !.peek = peek,
                                  !.len = len, !.pre_copied_seq = mpcb.copied_seq,
                                  !.pre_receive_queue = mpcb.sk_receive_queue,
                                  !.out = r.out]
        /\ UNCHANGED <<pc, sysctl_mptcp_ndiffports, sysctl_mptcp_checksum, ifa_list, tp,
                       arrivals, latest_token, tk_hashtable, tk_mcb, pm_events>>

(***************************************************************************)
(* Specifications.  Spec is the subflow registry with the path manager and *)
(* the join engine, SpecRcv the receive path of a connection with a joined *)
(* subflow, SpecTok the token hashtable with several MCBs.                 *)
(***************************************************************************)
LocalAddrs == {1, 2}
RemoteAddrs == {12, 13}
RemotePorts == {50, 51}
AddrIds == {1, 2}

Next ==
    \/ Socket(1)
    \/ AllocMpcb(1)
    \/ \E st \in {"SYN_RECV", "ESTABLISHED"} : MasterAttach(st)
    \/ \E s \in Socks : Established(s)
    \/ \E addr \in RemoteAddrs, id \in AddrIds, failing \in SUBSET (2..MaxPathIndex) :
          AddAddr(addr, 0, id, failing)
    \/ \E saddr \in RemoteAddrs, sport \in RemotePorts, daddr \in LocalAddrs,
          id \in AddrIds : JoinSyn(saddr, sport, daddr, id)
    \/ \E saddr \in RemoteAddrs, sport \in RemotePorts, daddr \in LocalAddrs :
          JoinAck(sport, saddr, daddr)
    \/ \E s \in Socks : DelSock(s)
    \/ \E s \in Socks : Destroy(s)
    \/ Close(1)

Spec == Init /\ [][Next]_vars

\* the ADD_ADDR options of a peer: any id, the ULID's id 0 included, with
\* and without a port
NextAdd ==
    \/ Socket(1)
    \/ AllocMpcb(1)
    \/ MasterAttach("ESTABLISHED")
    \/ \E addr \in RemoteAddrs, port \in {0, 50}, id \in {0} \cup AddrIds :
          AddAddrUpTo(MaxAddAddr, addr, port, id, {})

SpecAdd == Init /\ [][NextAdd]_vars

NextRcv ==
    \/ Socket(1)
    \/ AllocMpcb(1)
    \/ MasterAttach("ESTABLISHED")
    \/ JoinSyn(12, 50, 1, 1)
    \/ JoinAck(50, 12, 1)
    \/ \E s \in Socks : \E seg \in Segments(tp[s]) : Arrival(s, seg)
    \/ \E len \in 1..MaxReadLen, peek \in BOOLEAN : Read(len, peek)

InitRcv == Init /\ sysctl_mptcp_ndiffports = 1 /\ ifa_list = <<1>>

SpecRcv == InitRcv /\ [][NextRcv]_vars

NextTok ==
    \/ \E i \in Mcbs : Socket(i)
    \/ \E i \in Mcbs : ServerToken(i)
    \/ \E i \in Mcbs : AllocMpcb(i)
    \/ MasterAttach("ESTABLISHED")
    \/ \E i \in Mcbs : Close(i)
    \/ \E i \in Mcbs : Release(i)
    \/ \E token \in 0..MaxToken : HashFind(token)

SpecTok == InitRcv /\ [][NextTok]_vars

(***************************************************************************)
(* The send side.                                                          *)
(***************************************************************************)
\* the application writes one segment: it waits at the meta send head
Sendmsg ==
    /\ bug = "none"
    /\ tk_mcb[1].state = "alive"
    /\ mpcb.mpc /\ mpcb.cnt_subflows > 0
    /\ mpcb.write_seq < MaxSend
    /\ mpcb' = [mpcb EXCEPT
                  !.sk_write_queue = Append(mpcb.sk_write_queue,
                                            [dsn |-> mpcb.write_seq, path_mask |-> {}]),
                  !.write_seq = mpcb.write_seq + 1]
    /\ ret' = [no_call EXCEPT !.op = "tcp_sendmsg"]
    /\ UNCHANGED <<pc, sysctl_mptcp_ndiffports, sysctl_mptcp_checksum, ifa_list, tp, bug,
                   delivered, arrivals, latest_token, tk_hashtable, tk_mcb, pm_events>>

\* the TCP of subflow s measures its first round-trip time and sets its
\* congestion window and state
TcpState(s, rtt, cwnd, ca) ==
    /\ bug = "none"
    /\ tk_mcb[1].state = "alive"
    /\ tp[s].open /\ tp[s].attached
    /\ tp[s].srtt = 0
    /\ tp' = [tp EXCEPT ![s].srtt = rtt, ![s].snd_cwnd = cwnd, ![s].icsk_ca_state = ca]
    /\ ret' = [no_call EXCEPT !.op = "tcp_ack", !.s = s]
    /\ UNCHANGED <<pc, sysctl_mptcp_ndiffports, sysctl_mptcp_checksum, ifa_list, mpcb, bug,
                   delivered, arrivals, latest_token, tk_hashtable, tk_mcb, pm_events>>

\* the peer closes subflow s
SubflowFin(s) ==
    /\ bug = "none"
    /\ tk_mcb[1].state = "alive"
    /\ tp[s].open /\ tp[s].attached
    /\ tp[s].sk_state = "ESTABLISHED"
    /\ tp' = [tp EXCEPT ![s].sk_state = "CLOSE_WAIT"]
    /\ ret' = [no_call EXCEPT !.op = "tcp_fin", !.s = s]
    /\ UNCHANGED <<pc, sysctl_mptcp_ndiffports, sysctl_mptcp_checksum, ifa_list, mpcb, bug,
                   delivered, arrivals, latest_token, tk_hashtable, tk_mcb, pm_events>>

\* the sender sets the mask of the path indices it leaves out for now
SetNoneligible(mask) ==
    /\ bug = "none"
    /\ tk_mcb[1].state = "alive"
    /\ mpcb.cnt_subflows > 0
    /\ mask \subseteq existing_path_indices(mpcb.connection_list, tp)
    /\ mask # mpcb.noneligible
    /\ mpcb' = [mpcb EXCEPT !.noneligible = mask]
    /\ ret' = [no_call EXCEPT !.op = "noneligible"]
    /\ UNCHANGED <<pc, sysctl_mptcp_ndiffports, sysctl_mptcp_checksum, ifa_list, tp, bug,
                   delivered, arrivals, latest_token, tk_hashtable, tk_mcb, pm_events>>

\* mptcp_skb_entail(sk, skb), and the segment leaves
mptcp_skb_entail(T, s, skb) ==
    [T EXCEPT ![s].sk_write_queue = Append(T[s].sk_write_queue, skb),
              ![s].packets_out = T[s].packets_out + 1]

\* the segment n leaves the queue mptcp_next_segment took it from
unlink_next(m, n) ==
    IF n.reinject = 1 THEN [m EXCEPT !.reinject_queue = Tail(m.reinject_queue)]
    ELSE [m EXCEPT !.sk_write_queue = Tail(m.sk_write_queue)]

\* the meta socket sends its next segment n on the subflow sk that
\* get_available_subflow gave (0: none, the sender waits)
XmitOn(n, sk) ==
    /\ mpcb' = IF sk = 0 THEN mpcb ELSE unlink_next(mpcb, n)
    /\ tp' = IF sk = 0 THEN tp ELSE mptcp_skb_entail(tp, sk, n.skb[1])
    /\ ret' = [no_call EXCEPT !.op = "get_available_subflow", !.ans = sk,
                              !.skb = n.skb, !.reinject = n.reinject,
                              !.pre_mpcb = mpcb, !.pre_tp = tp]

Xmit ==
    /\ bug = "none"
    /\ tk_mcb[1].state = "alive"
    /\ mpcb.cnt_subflows > 0
    /\ mptcp_next_segment(mpcb).skb # <<>>
    /\ XmitOn(mptcp_next_segment(mpcb),
              get_available_subflow(mpcb, tp, mptcp_next_segment(mpcb).skb[1]))
    /\ UNCHANGED <<pc, sysctl_mptcp_ndiffports, sysctl_mptcp_checksum, ifa_list, bug,
                   delivered, arrivals, latest_token, tk_hashtable, tk_mcb, pm_events>>

\* the peer acknowledges the oldest segment of subflow s: the segment leaves
\* the write queue and the subflow leaves the pf state
Ack(s) ==
    /\ bug = "none"
    /\ tk_mcb[1].state = "alive"
    /\ tp[s].open /\ tp[s].attached
    /\ tp[s].sk_write_queue # <<>>
    /\ tp' = [tp EXCEPT ![s].sk_write_queue = Tail(tp[s].sk_write_queue),
                        ![s].packets_out = tp[s].packets_out - 1,
                        ![s].pf = FALSE]
    /\ ret' = [no_call EXCEPT !.op = "tcp_clean_rtx_queue", !.s = s]
    /\ UNCHANGED <<pc, sysctl_mptcp_ndiffports, sysctl_mptcp_checksum, ifa_list, mpcb, bug,
                   delivered, arrivals, latest_token, tk_hashtable, tk_mcb, pm_events>>

\* mptcp_retransmit_queue(f): the TCP of subflow f gives up on its path
mptcp_retransmit_queue_any_pf(m, T, f, fail_at) ==
    IF T[f].mpc /\ T[f].sk_state = "ESTABLISHED"
    THEN [r |-> mptcp_reinject_data(m, T, f, fail_at), op |-> "mptcp_reinject_data"]
    ELSE [r |-> [m |-> m, T |-> T], op |-> "mptcp_retransmit_queue"]

mptcp_retransmit_queue(m, T, f, fail_at) ==
    IF T[f].mpc /\ ~T[f].pf /\ T[f].sk_state = "ESTABLISHED"
    THEN [r |-> mptcp_reinject_data(m, T, f, fail_at), op |-> "mptcp_reinject_data"]
    ELSE [r |-> [m |-> m, T |-> T], op |-> "mptcp_retransmit_queue"]

ReinjectDone(q, f, fail_at) ==
    /\ mpcb' = q.r.m
    /\ tp' = q.r.T
    /\ ret' = IF q.op = "mptcp_reinject_data"
              THEN [no_call EXCEPT !.op = q.op, !.s = f, !.fail_at = fail_at,
                                   !.pre_mpcb = mpcb, !.pre_tp = tp]
              ELSE [no_call EXCEPT !.op = q.op, !.s = f]

Reinject(f, fail_at) ==
    /\ bug = "none"
    /\ tk_mcb[1].state = "alive"
    /\ tp[f].open /\ tp[f].attached
    /\ fail_at <= Len(tp[f].sk_write_queue)
    /\ ReinjectDone(mptcp_retransmit_queue(mpcb, tp, f, fail_at), f, fail_at)
    /\ UNCHANGED <<pc, sysctl_mptcp_ndiffports, sysctl_mptcp_checksum, ifa_list, bug,
                   delivered, arrivals, latest_token, tk_hashtable, tk_mcb, pm_events>>

NextSnd ==
    \/ Socket(1)
    \/ AllocMpcb(1)
    \/ MasterAttach("ESTABLISHED")
    \/ JoinSyn(12, 50, 1, 1)
    \/ JoinAck(50, 12, 1)
    \/ Sendmsg
    \/ \E s \in Socks, rtt \in 1..MaxSrtt, ca \in {"Open", "Loss"} :
          TcpState(s, rtt, MaxCwnd, ca)
    \/ \E s \in Socks : SubflowFin(s)
    \/ \E mask \in SUBSET (1..MaxPathIndex) : SetNoneligible(mask)
    \/ Xmit
    \/ \E s \in Socks : Ack(s)
    \/ \E f \in Socks, fail_at \in 0..MaxSend : Reinject(f, fail_at)

SpecSnd == InitRcv /\ [][NextSnd]_vars

\* the life of the MCB: teardown by close and by fallback, with a joined
\* subflow
\* the address addr of the host comes up or goes down: the notifier
\* mptcp_pm_inetaddr_event runs over the MCBs of the token hashtable

NetdevEvent(up, addr) ==
    LET visited == mpcb.allocated
                   /\ mptcp_hash_find(tk_hashtable, tk_mcb, mpcb.mptcp_loc_token) = 1
        e == IF visited THEN mptcp_pm_inetaddr_event(mpcb, tp, up, addr)
             ELSE [m |-> mpcb, T |-> tp]
    IN  /\ bug = "none"
        /\ pm_events < MaxNetdevEvents
        /\ pm_events' = pm_events + 1
        /\ up = (\A k \in 1..Len(ifa_list) : ifa_list[k] # addr)
        /\ ifa_list' = IF up THEN Append(ifa_list, addr) ELSE SelectSeq(ifa_list, LAMBDA a : a # addr)
        /\ mpcb' = e.m
        /\ tp' = e.T
        /\ ret' = [no_call EXCEPT !.op = "mptcp_pm_inetaddr_event",
                                  !.arg = [up |-> up, addr |-> addr, visited |-> visited],
                                  !.pre_mpcb = mpcb, !.pre_tp = tp]
        /\ UNCHANGED <<pc, sysctl_mptcp_ndiffports, sysctl_mptcp_checksum, bug,
                       delivered, arrivals, latest_token, tk_hashtable, tk_mcb>>

NextEv ==
    \/ Socket(1) \/ AllocMpcb(1) \/ MasterAttach("ESTABLISHED")
    \/ \E up \in BOOLEAN, addr \in 1..2 : NetdevEvent(up, addr)
    \/ Close(1)

InitEv == HostInit({<<1>>, <<1, 2>>, <<1, 61>>, <<61, 1>>}) /\ sysctl_mptcp_ndiffports = 1

SpecEv == InitEv /\ [][NextEv]_vars

(***************************************************************************)
(* mptcp_close in user context against the deferred fallback worker        *)
(* mptcp_fallback_wq, step by step: each takes the lock of the master      *)
(* socket, works under it, and mptcp_destroy_mpcb lets it go and takes it  *)
(* again.  pc.close and pc.wq say where the two stand.                     *)
(***************************************************************************)
release_sock(T, sk) == [T EXCEPT ![sk].owned = FALSE]

\* mptcp_destroy_mpcb up to its release_sock: mptcp_hash_remove; list_del of
\* an MCB that was unlinked before goes through the poisoned pointers
DestroyUnlink(crash) ==
    /\ crash \in BOOLEAN
    /\ crash => ~(\E b \in Buckets : \E k \in 1..Len(tk_hashtable[b]) :
                                              tk_hashtable[b][k] = 1)
    /\ tk_hashtable' = mptcp_hash_remove(tk_hashtable, 1)
    /\ mpcb' = [mpcb EXCEPT !.syn_table = hash_remove_requests(mpcb)]
    /\ bug' = IF crash THEN "list_del" ELSE bug

\* mptcp_fallback in interrupt context: the work is queued
ScheduleFallback ==
    /\ bug = "none"
    /\ pc.wq = "idle"
    /\ tk_mcb[1].state = "alive"
    /\ tp[MasterSk].open /\ tp[MasterSk].mpcb
    /\ \A s \in Socks \ {MasterSk} : ~(tp[s].open /\ tp[s].mpcb)
    /\ tp' = sock_hold(tp, MasterSk)
    /\ pc' = [pc EXCEPT !.wq = "queued"]
    /\ ret' = [no_call EXCEPT !.op = "schedule_work"]
    /\ UNCHANGED <<sysctl_mptcp_ndiffports, sysctl_mptcp_checksum, ifa_list, mpcb, bug,
                   delivered, arrivals, latest_token, tk_hashtable, tk_mcb, pm_events>>

\* lock_sock(master_sk) by p: mptcp_close or the worker at its start, or
\* either of them in mptcp_destroy_mpcb
LockSock(p) ==
    /\ bug = "none"
    /\ \/ pc[p] = "window"
       \/ p = "close" /\ pc[p] = "idle" /\ tp[MasterSk].open
       \/ p = "wq" /\ pc[p] = "queued"
    /\ ~tp[MasterSk].owned
    /\ tp' = [tp EXCEPT ![MasterSk].owned = TRUE]
    /\ pc' = [pc EXCEPT ![p] = IF pc[p] = "window" THEN "relocked" ELSE "locked"]
    /\ ret' = [no_call EXCEPT !.op = "lock_sock"]
    /\ UNCHANGED <<sysctl_mptcp_ndiffports, sysctl_mptcp_checksum, ifa_list, mpcb, bug,
                   delivered, arrivals, latest_token, tk_hashtable, tk_mcb, pm_events>>

\* mptcp_fallback_wq under the lock: __mptcp_fallback returns at once, and
\* the worker ends, or runs to the release_sock of mptcp_destroy_mpcb
WqFallback ==
    /\ pc.wq = "locked"
    /\ bug = "none"
    /\ ret' = [no_call EXCEPT !.op = "mptcp_fallback_wq"]
    /\ IF ~tp[MasterSk].mpcb \/ mpcb.sock_dead
       THEN /\ tp' = sock_put(release_sock(tp, MasterSk), MasterSk, 1)
            /\ pc' = [pc EXCEPT !.wq = "returned"]
            /\ UNCHANGED <<mpcb, bug, tk_hashtable>>
       ELSE /\ \E crash \in BOOLEAN : DestroyUnlink(crash)
            /\ tp' = sock_hold(release_sock(tp, MasterSk), MasterSk)
            /\ pc' = [pc EXCEPT !.wq = "window"]
    /\ UNCHANGED <<sysctl_mptcp_ndiffports, sysctl_mptcp_checksum, ifa_list,
                   delivered, arrivals, latest_token, tk_mcb, pm_events>>

\* the worker after the lock_sock of mptcp_destroy_mpcb: SOCK_DEAD, sock_put,
\* mpcb_release, master_tp->mpcb = NULL, sock_put, release_sock, sock_put
WqFinish ==
    /\ pc.wq = "relocked"
    /\ bug = "none"
    /\ mpcb' = mpcb_release([mpcb EXCEPT !.sock_dead = TRUE])
    /\ tp' = [sock_put(release_sock(tp, MasterSk), MasterSk, 3)
                EXCEPT ![MasterSk].mpcb = FALSE]
    /\ tk_mcb' = [tk_mcb EXCEPT ![1].state = "tcp"]
    /\ pc' = [pc EXCEPT !.wq = "destroyed"]
    /\ ret' = [no_call EXCEPT !.op = "mpcb_release"]
    /\ UNCHANGED <<sysctl_mptcp_ndiffports, sysctl_mptcp_checksum, ifa_list, bug,
                   delivered, arrivals, latest_token, tk_hashtable, pm_events>>

\* mptcp_close under the lock: tcp_close of a plain socket, and the close
\* ends, or sock_hold and mptcp_destroy_mpcb up to its release_sock
CloseDestroy ==
    /\ pc.close = "locked"
    /\ bug = "none"
    /\ ret' = [no_call EXCEPT !.op = "mptcp_close", !.s = 1]
    /\ IF ~(tp[MasterSk].mpc /\ tp[MasterSk].mpcb)
       THEN /\ pc' = [pc EXCEPT !.close = "tcp_close"]
            /\ tp' = [release_sock(tp, MasterSk) EXCEPT ![MasterSk].sk_state = "CLOSE"]
            /\ UNCHANGED <<mpcb, bug, tk_hashtable, tk_mcb>>
       ELSE /\ \E crash \in BOOLEAN : DestroyUnlink(crash)
            /\ tp' = sock_hold(release_sock(tp, MasterSk), MasterSk)
            /\ tk_mcb' = [tk_mcb EXCEPT ![1].state = "dead"]
            /\ pc' = [pc EXCEPT !.close = "window"]
    /\ UNCHANGED <<sysctl_mptcp_ndiffports, sysctl_mptcp_checksum, ifa_list,
                   delivered, arrivals, latest_token, pm_events>>

\* mptcp_close after the lock_sock of mptcp_destroy_mpcb: SOCK_DEAD,
\* sock_put, the receive queue is flushed, release_sock, sock_put; the MCB
\* it writes to may have been freed by the worker
CloseFinish ==
    /\ pc.close = "relocked"
    /\ bug = "none"
    /\ mpcb' = IF mpcb.allocated
               THEN [mpcb EXCEPT !.sock_dead = TRUE, !.rcv_shutdown = TRUE,
                                 !.sk_receive_queue = <<>>]
               ELSE mpcb
    /\ bug' = IF mpcb.allocated THEN bug ELSE "mptcp_close: mpcb freed"
    /\ tp' = sock_put(release_sock(tp, MasterSk), MasterSk, 2)
    /\ pc' = [pc EXCEPT !.close = "closed"]
    /\ ret' = [no_call EXCEPT !.op = "mptcp_close", !.s = 1]
    /\ UNCHANGED <<sysctl_mptcp_ndiffports, sysctl_mptcp_checksum, ifa_list,
                   delivered, arrivals, latest_token, tk_hashtable, tk_mcb, pm_events>>

NextRace ==
    \/ Socket(1) \/ AllocMpcb(1) \/ MasterAttach("ESTABLISHED")
    \/ JoinSyn(12, 50, 1, 1) \/ JoinAck(50, 12, 1)
    \/ ScheduleFallback
    \/ \E p \in {"close", "wq"} : LockSock(p)
    \/ WqFallback \/ WqFinish
    \/ CloseDestroy \/ CloseFinish

SpecRace == Init /\ [][NextRace]_vars

NextLife ==
    \/ Socket(1)
    \/ AllocMpcb(1)
    \/ \E st \in {"SYN_RECV", "ESTABLISHED"} : MasterAttach(st)
    \/ \E s \in Socks : Established(s)
    \/ JoinSyn(12, 50, 1, 1)
    \/ JoinAck(50, 12, 1)
    \/ \E s \in Socks : DelSock(s)
    \/ \E s \in Socks : Destroy(s)
    \/ Close(1)
    \/ Release(1)
    \/ Fallback

SpecLife == InitRcv /\ [][NextLife]_vars

(***************************************************************************)
(* Properties of the receive path (SpecRcv).                               *)
(***************************************************************************)
\* the calls of mptcp_queue_skb the last action made
QueueCalls == {k \in 1..Len(ret.calls) : ret.calls[k].fn = "mptcp_queue_skb"}

\* the last action was a read that consumes
NonPeekRead == ret.op = "mptcp_check_rcv_queue" /\ ~ret.peek

\* C1: every DSN byte is copied to the application at most once: a non-peek
\* read copies no byte whose DSN is below the copied_seq it started from,
\* and no DSN occurs twice in the stream delivered so far
C1_AtMostOnce ==
    /\ \A i, j \in 1..Len(delivered) : i # j => delivered[i] # delivered[j]
    /\ NonPeekRead => \A k \in 1..Len(ret.out) : ret.out[k] >= ret.pre_copied_seq

\* a non-peek read copied from a segment that begins below copied_seq (an
\* overlapping retransmission)
C1_Witness ==
    /\ NonPeekRead
    /\ ret.out # <<>>
    /\ \E k \in 1..Len(ret.pre_receive_queue) :
          /\ ret.pre_receive_queue[k].data_seq < ret.pre_copied_seq
          /\ ret.pre_receive_queue[k].pay + ret.pre_receive_queue[k].len > ret.out[1]
          /\ ret.pre_receive_queue[k].pay < ret.out[1]

\* C2: the bytes copied by non-peek reads come in increasing, gap-free DSN
\* order from the initial DSN 0: the i-th byte delivered has DSN i-1
C2_InOrder == \A i \in 1..Len(delivered) : delivered[i] = i - 1

\* the whole stream was delivered, from at least two segments
C2_Witness ==
    /\ Len(delivered) = StreamLen
    /\ NonPeekRead
    /\ arrivals >= 2

\* the meta receive queue covers [copied_seq, rcv_nxt) without a gap
RcvQueueCovers(p) ==
    \A d \in p.copied_seq..(p.rcv_nxt - 1) :
        \E k \in 1..Len(p.sk_receive_queue) :
            /\ p.sk_receive_queue[k].data_seq <= d
            /\ d < p.sk_receive_queue[k].end_data_seq

\* every segment of the out-of-order queue begins strictly after rcv_nxt
OfoAfterRcvNxt(p) ==
    \A k \in 1..Len(p.out_of_order_queue) : p.out_of_order_queue[k].data_seq > p.rcv_nxt

\* the out-of-order queue is sorted by data_seq
OfoSorted(p) ==
    \A k \in 1..(Len(p.out_of_order_queue) - 1) :
        p.out_of_order_queue[k].data_seq <= p.out_of_order_queue[k + 1].data_seq

\* C3: after every mptcp_queue_skb call that returns, the meta receive queue
\* covers [copied_seq, rcv_nxt) without a gap, every segment of the meta
\* out-of-order queue has data_seq strictly after rcv_nxt, and the
\* out-of-order queue is sorted by data_seq
C3_QueuesAfterQueueSkb ==
    bug = "none" =>
        \A k \in QueueCalls :
            /\ RcvQueueCovers(ret.calls[k].post)
            /\ OfoAfterRcvNxt(ret.calls[k].post)
            /\ OfoSorted(ret.calls[k].post)

\* a segment that mptcp_get_dataseq_mapping gave a DSN lies inside the
\* mapping it was derived from
InsideMapping(skb) ==
    skb.mapped /\ skb.msub <= skb.seq /\ skb.end_seq <= skb.msub + skb.mlen + skb.fin

C5_DuplicateEaten ==
    \A k \in QueueCalls :
        (ret.calls[k].mpc /\ ret.calls[k].skb.end_data_seq <= ret.calls[k].pre.rcv_nxt) =>
            /\ ret.calls[k].ans = MPTCP_EATEN
            /\ ret.calls[k].post.rcv_nxt = ret.calls[k].pre.rcv_nxt
            /\ ret.calls[k].post.sk_receive_queue = ret.calls[k].pre.sk_receive_queue
            /\ ret.calls[k].post.out_of_order_queue = ret.calls[k].pre.out_of_order_queue

\* a data segment that was already received arrived again, with segments
\* waiting in both meta queues
C5_Witness ==
    \E k \in QueueCalls :
        /\ ret.calls[k].mpc
        /\ ret.calls[k].skb.mapped
        /\ ret.calls[k].skb.len > 0
        /\ ret.calls[k].skb.end_data_seq <= ret.calls[k].pre.rcv_nxt
        /\ ret.calls[k].ans = MPTCP_EATEN
        /\ ret.calls[k].pre.sk_receive_queue # <<>>
        /\ ret.calls[k].pre.out_of_order_queue # <<>>

\* the calls of mptcp_queue_skb of the last action that queued a mapped
\* segment beginning at rcv_nxt at the tail of the meta receive queue
InOrderCalls ==
    {k \in QueueCalls :
        /\ ret.calls[k].mpc
        /\ ret.calls[k].skb.mapped
        /\ ret.calls[k].ans = MPTCP_QUEUED
        /\ ret.calls[k].skb.data_seq = ret.calls[k].pre.rcv_nxt}

\* the DSNs a segment takes: its payload, and one for the data FIN
DsnLen(skb) == skb.len + (IF skb.F THEN 1 ELSE 0)

C11_WitnessFin ==
    \E k \in InOrderCalls :
        /\ ret.calls[k].skb.F
        /\ ret.calls[k].skb.len = 2
        /\ ret.calls[k].pre.out_of_order_queue = <<>>

\* the DSNs delivered to the application so far
DeliveredDsns == {delivered[i] : i \in 1..Len(delivered)}

\* the segments with the data FIN that the last read removed from the meta
\* receive queue
DfinEaten ==
    {k \in 1..Len(ret.pre_receive_queue) :
        /\ is_dfin_seg(mpcb, ret.pre_receive_queue[k])
        /\ \A j \in 1..Len(mpcb.sk_receive_queue) :
              mpcb.sk_receive_queue[j] # ret.pre_receive_queue[k]}

\* C12: when a non-peek read removes a segment with the data FIN from the
\* meta receive queue and moves copied_seq past the FIN, every payload byte
\* of the segment has been delivered to the application, whatever the
\* lengths of the reads
C12_DfinAllBytes ==
    (NonPeekRead /\ bug = "none") =>
        \A k \in DfinEaten :
            \A d \in ret.pre_receive_queue[k].pay ..
                     (ret.pre_receive_queue[k].pay + ret.pre_receive_queue[k].len - 1) :
                d \in DeliveredDsns

\* the data FIN was queued in meta order: rcv_nxt stands behind its DSN
DfinQueued == mpcb.dfin_rcvd /\ mpcb.rcv_nxt = mpcb.fin_dsn

\* the data FIN was consumed: copied_seq stands behind its DSN
DfinConsumed == mpcb.dfin_rcvd /\ mpcb.copied_seq >= mpcb.fin_dsn

CsumFailedCalls ==
    {k \in QueueCalls :
        /\ ret.calls[k].mpc
        /\ ret.calls[k].skb.dss_off # 0
        /\ ret.calls[k].skb.csum_bad
        /\ ret.calls[k].skb.end_data_seq > ret.calls[k].pre.rcv_nxt}

\* no segment of the queue failed the checksum verification
NoneCorrupt(q) == \A k \in 1..Len(q) : ~q[k].csum_bad

\* C16: a segment that fails the DSS checksum verification in
\* mptcp_queue_skb resets its subflow and goes to neither meta queue nor
\* moves the meta rcv_nxt, so that the meta queues never hold corrupted data
C16_CsumFailureDropped ==
    /\ \A k \in CsumFailedCalls :
          /\ tp[ret.s].csum_error
          /\ ret.calls[k].post.rcv_nxt = ret.calls[k].pre.rcv_nxt
          /\ ret.calls[k].post.sk_receive_queue = ret.calls[k].pre.sk_receive_queue
          /\ ret.calls[k].post.out_of_order_queue = ret.calls[k].pre.out_of_order_queue
    /\ NoneCorrupt(mpcb.sk_receive_queue)
    /\ NoneCorrupt(mpcb.out_of_order_queue)

(***************************************************************************)
(* Properties of the token hashtable (SpecTok).                            *)
(***************************************************************************)
\* MCB i is linked in the token hashtable
InTable(i) ==
    \E b \in Buckets : \E k \in 1..Len(tk_hashtable[b]) : tk_hashtable[b][k] = i

ListEntries(s) == {k \in 1..Len(mpcb.connection_list) : mpcb.connection_list[k] = s}

\* the last action called mptcp_del_sock
DelSockCalled == ret.op \in {"mptcp_del_sock", "inet_csk_destroy_sock"}

\* C7: the connection list holds every attached subflow exactly once and no
\* subflow with attached = 0, cnt_subflows is its length, and mptcp_del_sock
\* on a subflow that is not attached changes neither
C7_Registry ==
    /\ \A s \in Socks : (tp[s].open /\ tp[s].attached) => Cardinality(ListEntries(s)) = 1
    /\ \A s \in Socks : ~(tp[s].open /\ tp[s].attached) => ListEntries(s) = {}
    /\ mpcb.cnt_subflows = Len(mpcb.connection_list)
    /\ (DelSockCalled /\ ~ret.was_attached) =>
          /\ mpcb.connection_list = ret.pre_connection_list
          /\ mpcb.cnt_subflows = ret.pre_cnt_subflows

\* mptcp_del_sock ran on a subflow it had detached before, with two other
\* subflows in the list
C7_Witness ==
    /\ DelSockCalled
    /\ ~ret.was_attached
    /\ Len(mpcb.connection_list) = 2

\* the MCB is live: in the token hashtable, with a subflow attached
Live == InTable(1) /\ mpcb.connection_list # <<>>

\* the subflows of the connection list that are the master
Masters ==
    {k \in 1..Len(mpcb.connection_list) :
        /\ tp[mpcb.connection_list[k]].path_index = 1
        /\ ~tp[mpcb.connection_list[k]].slave_sk}

\* C8: while the MCB is live, exactly one subflow of the connection list
\* has path_index = 1 and slave_sk = 0
C8_OneMaster == Live => Cardinality(Masters) = 1

\* a live MCB with the master, a subflow it opened itself and a joined one
C8_Witness ==
    /\ Live
    /\ Len(mpcb.connection_list) = 3
    /\ \E s \in Socks : tp[s].attached /\ tp[s].sk_state = "SYN_SENT"
    /\ ret.op = "mptcp_subflow_attach"

\* C9: the subflows of the connection list have pairwise distinct path
\* indices
C9_DistinctPathIndex ==
    \A j, k \in 1..Len(mpcb.connection_list) :
        j # k => tp[mpcb.connection_list[j]].path_index
                    # tp[mpcb.connection_list[k]].path_index

\* the last action called mptcp_add_sock or detached a subflow
AddOrDelSockCalled ==
    \/ ret.op \in {"mptcp_add_sock", "mptcp_subflow_attach"}
    \/ ret.op = "mptcp_del_sock" /\ ret.was_attached

\* C10: after every mptcp_add_sock and mptcp_del_sock the meta socket's
\* sk_rcvbuf, window_clamp, rcv_ssthresh and sk_sndbuf are the sums of the
\* fields over the subflows of the connection list
C10_BufferSums ==
    (AddOrDelSockCalled /\ bug = "none") =>
        /\ mpcb.sk_rcvbuf = SumOver(mpcb.connection_list, tp, "sk_rcvbuf")
        /\ mpcb.window_clamp = SumOver(mpcb.connection_list, tp, "window_clamp")
        /\ mpcb.rcv_ssthresh = SumOver(mpcb.connection_list, tp, "rcv_ssthresh")
        /\ mpcb.sk_sndbuf = SumOver(mpcb.connection_list, tp, "sk_sndbuf")

(***************************************************************************)
(* Properties of the life of the MCB (SpecLife).                           *)
(***************************************************************************)
\* the last action was a fallback of an MCB that had a subflow attached
FallbackOfLive == ret.op = "mptcp_fallback" /\ ret.pre_connection_list # <<>>

\* C14: after the fallback of a live MCB the MCB is not found in the token
\* hashtable, its reinject queue is empty, the master subflow is detached
\* (attached = 0, in no connection list) with its mpcb pointer cleared, and
\* the MCB is freed
C14_FallbackTeardown ==
    FallbackOfLive =>
        /\ mptcp_hash_find(tk_hashtable, tk_mcb, mpcb.mptcp_loc_token) = 0
        /\ mpcb.reinject_queue = <<>>
        /\ ~tp[MasterSk].attached
        /\ \A k \in 1..Len(mpcb.connection_list) : mpcb.connection_list[k] # MasterSk
        /\ ~tp[MasterSk].mpcb
        /\ ~mpcb.allocated

\* the slave subflows that point to the MCB
SlavesOfMcb == {s \in Socks \ {MasterSk} : tp[s].open /\ tp[s].mpcb}

SchedCall == ret.op = "get_available_subflow"

\* the subflows of the connection list of MCB m
SubflowsOf(m) == {m.connection_list[k] : k \in 1..Len(m.connection_list)}

\* the candidate predicate of the scheduler
Candidate(m, t) ==
    /\ t.sk_state \in {"ESTABLISHED", "CLOSE_WAIT"}
    /\ ~t.pf
    /\ t.icsk_ca_state # "Loss"
    /\ t.packets_out < t.snd_cwnd
    /\ t.path_index \notin m.noneligible

Candidates(m, T) == {s \in SubflowsOf(m) : Candidate(m, T[s])}

\* the candidates the segment skb has not been enqueued on; an MCB with one
\* subflow does not look at the path_mask
Eligible(m, T, skb) ==
    IF m.cnt_subflows = 1 THEN Candidates(m, T)
    ELSE {s \in Candidates(m, T) : T[s].path_index \notin skb.path_mask}

\* ans is a subflow of set C with the smallest srtt of C, or none is given
\* and C is empty
MinSrttOf(ans, C, T) ==
    /\ ans # 0 => ans \in C /\ \A c \in C : T[ans].srtt <= T[c].srtt
    /\ ans = 0 <=> C = {}

\* C17: get_available_subflow returns a subflow that satisfies the candidate
\* predicate (state ESTABLISHED or CLOSE_WAIT, not pf, not in Loss,
\* in_flight < cwnd, path index not in noneligible) and has the smallest
\* srtt of all candidates of the connection list; it returns none if and
\* only if no subflow of the MCB is a candidate
C17_MinSrttCandidate ==
    SchedCall => MinSrttOf(ret.ans, Candidates(ret.pre_mpcb, ret.pre_tp), ret.pre_tp)

\* C17 as the code has it: when the MCB has more than one subflow, the
\* subflows whose path-index bit is set in the segment's path_mask are left
\* out; the result has the smallest srtt of the candidates that remain, and
\* none is returned if and only if none remains
C17_MinSrttEligible ==
    SchedCall =>
        MinSrttOf(ret.ans, Eligible(ret.pre_mpcb, ret.pre_tp, ret.skb[1]), ret.pre_tp)

\* the scheduler passed over a candidate with a smaller srtt that the
\* segment had been enqueued on, and gave another subflow
C17_Witness ==
    /\ SchedCall
    /\ ret.ans # 0
    /\ \E c \in Candidates(ret.pre_mpcb, ret.pre_tp) :
          /\ ret.pre_tp[c].path_index \in ret.skb[1].path_mask
          /\ ret.pre_tp[c].srtt < ret.pre_tp[ret.ans].srtt

\* the last action called mptcp_reinject_data on subflow ret.s
ReinjectCall == ret.op = "mptcp_reinject_data"

\* segment skb with the path-index bit pi set in its path_mask
Marked(skb, pi) == [skb EXCEPT !.path_mask = skb.path_mask \cup {pi}]

\* every ESTABLISHED subflow of MCB m has its path-index bit in the
\* path_mask of skb
AllPathsTried(skb, m, T) ==
    \A s \in SubflowsOf(m) :
        T[s].sk_state = "ESTABLISHED" => T[s].path_index \in skb.path_mask

\* the clones due for the first n segments of write queue wq, in order
RECURSIVE ClonesDue(_, _, _, _, _)
ClonesDue(wq, n, pi, m, T) ==
    IF n = 0 THEN <<>>
    ELSE IF AllPathsTried(Marked(wq[n], pi), m, T)
    THEN ClonesDue(wq, n - 1, pi, m, T)
    ELSE Append(ClonesDue(wq, n - 1, pi, m, T), Marked(wq[n], pi))

\* mptcp_reinject_data on f, whose write queue was wq, has marked the first
\* n segments and no other, has put the clones due for the first c segments
\* at the tail of the reinject queue, and has set pf
Reinjected(f, wq, n, c, m, T) ==
    /\ Len(tp[f].sk_write_queue) = Len(wq)
    /\ \A k \in 1..Len(wq) :
          tp[f].sk_write_queue[k] = IF k <= n THEN Marked(wq[k], T[f].path_index) ELSE wq[k]
    /\ mpcb.reinject_queue = m.reinject_queue \o ClonesDue(wq, c, T[f].path_index, m, T)
    /\ tp[f].pf

\* C18: mptcp_reinject_data on subflow f sets f's path-index bit in the
\* path_mask of every segment of f's write queue and appends a clone of each
\* of them to the reinject queue in write-queue order, skipping exactly the
\* segments for which every live subflow's bit is already in the path_mask;
\* afterwards f.pf = 1
C18_ReinjectAll ==
    ReinjectCall =>
        Reinjected(ret.s, ret.pre_tp[ret.s].sk_write_queue,
                   Len(ret.pre_tp[ret.s].sk_write_queue),
                   Len(ret.pre_tp[ret.s].sk_write_queue), ret.pre_mpcb, ret.pre_tp)

\* the segment of the write queue wq of f at which the walk stopped: the
\* first one whose clone was due and failed; Len(wq) + 1 when none did
StoppedAt(wq, fail_at, pi, m, T) ==
    IF fail_at # 0 /\ ~AllPathsTried(Marked(wq[fail_at], pi), m, T)
    THEN fail_at
    ELSE Len(wq) + 1

\* C18 as the code has it: the walk over f's write queue stops at the first
\* segment whose skb_clone fails; the segments up to and including that one
\* are marked, the clones due for the segments before it are appended in
\* write-queue order, a segment being skipped when every ESTABLISHED subflow
\* has its bit in the path_mask; afterwards f.pf = 1
C18_ReinjectUntilCloneFails ==
    ReinjectCall =>
        Reinjected(ret.s, ret.pre_tp[ret.s].sk_write_queue,
                   Min(StoppedAt(ret.pre_tp[ret.s].sk_write_queue, ret.fail_at,
                                 ret.pre_tp[ret.s].path_index, ret.pre_mpcb, ret.pre_tp),
                       Len(ret.pre_tp[ret.s].sk_write_queue)),
                   StoppedAt(ret.pre_tp[ret.s].sk_write_queue, ret.fail_at,
                             ret.pre_tp[ret.s].path_index, ret.pre_mpcb, ret.pre_tp) - 1,
                   ret.pre_mpcb, ret.pre_tp)

\* a reinjection of two segments that cloned both onto the reinject queue
C18_Witness ==
    /\ ReinjectCall
    /\ Len(ret.pre_tp[ret.s].sk_write_queue) = 2
    /\ Len(mpcb.reinject_queue) = Len(ret.pre_mpcb.reinject_queue) + 2
    /\ tp[ret.s].pf

(***************************************************************************)
(* Properties of the path manager (Spec).                                  *)
(***************************************************************************)
\* the entries of a list
EntriesOf(list) == {list[k] : k \in 1..Len(list)}

\* the last action called mptcp_v4_add_raddress with a non-zero id and an
\* address that no stored entry has, by address or by id, and the array had
\* room
AddOfNew ==
    /\ ret.op = "mptcp_v4_add_raddress"
    /\ ret.arg.id # 0
    /\ \A e \in EntriesOf(ret.pre_mpcb.raddr4) : e.addr # ret.arg.addr /\ e.id # ret.arg.id
    /\ Len(ret.pre_mpcb.raddr4) < MPTCP_MAX_ADDR

\* C19: mptcp_v4_add_raddress with a non-zero id and an address that matches
\* no stored entry, while fewer than MPTCP_MAX_ADDR entries are stored,
\* appends the new entry: the remote-address set holds every entry stored
\* before, unchanged, plus the new one, num_addr4 has grown by one and
\* list_rcvd is set, for any number of entries stored before
C19_AppendKeepsEntries ==
    AddOfNew =>
        /\ EntriesOf(ret.res.raddr4) = EntriesOf(ret.pre_mpcb.raddr4) \cup {ret.arg}
        /\ Len(ret.res.raddr4) = Len(ret.pre_mpcb.raddr4) + 1
        /\ ret.res.list_rcvd

\* the id of the local address at position i and of the remote address at
\* position j of MCB m; position 0 is the ULID, whose id is 0
LocIdAt(m, i) == IF i = 0 THEN 0 ELSE m.addr4[i].id
RemIdAt(m, j) == IF j = 0 THEN 0 ELSE m.raddr4[j].id

\* the pairs of (local addresses and ULID) x (remote addresses and ULID)
\* without the pair of the two ULIDs
PathPairs(m) == ((0..Len(m.addr4)) \X (0..Len(m.raddr4))) \ {<<0, 0>>}

\* the ids an entry of the path array or a pair can carry
PathIds(m) ==
    {0} \cup {m.addr4[i].id : i \in 1..Len(m.addr4)}
        \cup {m.raddr4[j].id : j \in 1..Len(m.raddr4)}
        \cup {m.pa4[k].loc_id : k \in 1..Len(m.pa4)}
        \cup {m.pa4[k].rem_id : k \in 1..Len(m.pa4)}

\* the path array of m has as many entries with the ids (l, r) as there are
\* pairs with these ids
SameCount(m, l, r) ==
    Cardinality({k \in 1..Len(m.pa4) : m.pa4[k].loc_id = l /\ m.pa4[k].rem_id = r})
      = Cardinality({p \in PathPairs(m) : LocIdAt(m, p[1]) = l /\ RemIdAt(m, p[2]) = r})

\* C20: after mptcp_v4_update_patharray with mptcp_ndiffports = 1 and L
\* local and R remote addresses stored, the path array holds exactly
\* (L+1)(R+1) - 1 entries, exactly one for every pair of (local addresses
\* and ULID) x (remote addresses and ULID) but the pair of the two ULIDs,
\* each with the loc_id and the rem_id of its pair
C20_PathArrayIsProduct ==
    (sysctl_mptcp_ndiffports = 1 /\ mpcb.pa4_alloc) =>
        /\ Len(mpcb.pa4) = (Len(mpcb.addr4) + 1) * (Len(mpcb.raddr4) + 1) - 1
        /\ \A l \in PathIds(mpcb), r \in PathIds(mpcb) : SameCount(mpcb, l, r)

\* a path array of three entries, one of each loop, built for one local and
\* one remote address when a JOIN brought the remote address
C20_Witness ==
    /\ sysctl_mptcp_ndiffports = 1 /\ mpcb.pa4_alloc
    /\ Len(mpcb.addr4) = 1 /\ Len(mpcb.raddr4) = 1
    /\ Len(mpcb.pa4) = 3
    /\ ret.op = "mptcp_v4_do_rcv"

\* entry p of a path array has the ids of entry q
SameIds(p, q) == p.loc_id = q.loc_id /\ p.rem_id = q.rem_id

\* the path indices of path array pa are pairwise distinct and all >= 2
DistinctIndices(pa) ==
    /\ \A k \in 1..Len(pa) : pa[k].path_index >= 2
    /\ \A j, k \in 1..Len(pa) : j # k => pa[j].path_index # pa[k].path_index

\* a step of an MCB from path array old to path array new: the entries whose
\* ids were in old keep the path index they had, the others get one from
\* next_unused_pi on
Rebuilt(old, new, old_pi, new_pi) ==
    /\ old_pi <= new_pi
    /\ \A k \in 1..Len(new) :
          IF \E j \in 1..Len(old) : SameIds(old[j], new[k])
          THEN \E j \in 1..Len(old) :
                  SameIds(old[j], new[k]) /\ old[j].path_index = new[k].path_index
          ELSE old_pi <= new[k].path_index /\ new[k].path_index < new_pi
    /\ DistinctIndices(new)

\* C21: across the rebuilds of the path array, an entry whose (loc_id,
\* rem_id) was in the array keeps its path_index, a new entry gets a
\* path_index from next_unused_pi that this MCB never gave before, and the
\* path indices of the array are pairwise distinct and all >= 2
C21_PathIndexStable ==
    [][(mpcb.allocated /\ mpcb'.allocated /\ mpcb.pa4_alloc)
          => Rebuilt(mpcb.pa4, mpcb'.pa4, mpcb.next_unused_pi, mpcb'.next_unused_pi)]_vars

(***************************************************************************)
(* Properties of the JOIN handshake (Spec).                                *)
(***************************************************************************)
\* the last action was mptcp_lookup_join on a SYN with MP_JOIN
JoinCall == ret.op \in {"mptcp_lookup_join", "mptcp_v4_do_rcv"}

\* C22: mptcp_lookup_join on a SYN whose MP_JOIN token matches no MCB of the
\* token hashtable returns -ENOKEY and changes no MCB state: no remote
\* address is learned, no request sock is made or hashed, no reference
\* count changes
C22_NoMcbNoChange ==
    (JoinCall /\ mptcp_hash_find(tk_hashtable, tk_mcb, ret.arg.token) = 0) =>
        /\ ret.ans = -ENOKEY
        /\ mpcb = ret.pre_mpcb
        /\ tp = ret.pre_tp

\* a SYN with the token of a closed MCB, from an address the MCB has not
\* learned, was answered by -ENOKEY
C22_Witness ==
    /\ ret.op = "mptcp_lookup_join"
    /\ ret.ans = -ENOKEY
    /\ mpcb.sock_dead
    /\ mpcb.raddr4 = <<>>
    /\ mptcp_hash_find(tk_hashtable, tk_mcb, ret.arg.token) = 0

\* C23: after mptcp_hash_remove(mpcb), run on close or fallback, the MCB is
\* not in the token hashtable and the tuple hashtable holds no pending
\* request sock of that MCB, so that no later SYN with MP_JOIN and no later
\* final ACK of a pending join reaches the destroyed MCB
C23_RemovedMcbUnreachable ==
    (mpcb.allocated /\ mpcb.sock_dead) =>
        /\ mptcp_hash_find(tk_hashtable, tk_mcb, mpcb.mptcp_loc_token) = 0
        /\ \A k \in 1..Len(mpcb.syn_table) : ~mpcb.syn_table[k].hashed

(***************************************************************************)
(* Properties of the address events (SpecEv)                               *)
(***************************************************************************)
\* the notifier has just run for an address that came up, over the MCB, and
\* no subflow of the MCB used that address
UpOfUnused ==
    /\ ret.op = "mptcp_pm_inetaddr_event" /\ ret.arg.up /\ ret.arg.visited
    /\ ret.pre_tp[ret.pre_mpcb.master_sk].mpc
    /\ subflows_on(ret.pre_mpcb, ret.pre_tp, ret.arg.addr) = {}

\* the address ids of the local address lists of an MCB
LocalIds(m) ==
    {m.addr4[k].id : k \in 1..Len(m.addr4)} \cup {m.addr6[k].id : k \in 1..Len(m.addr6)}

AppendedFresh(old, new, addr) ==
    /\ Len(new.addr4) = Len(old.addr4) + 1
    /\ SubSeq(new.addr4, 1, Len(old.addr4)) = old.addr4
    /\ new.addr4[Len(new.addr4)].addr = addr
    /\ new.addr4[Len(new.addr4)].id \notin LocalIds(old)
    /\ new.addr4_unsent = old.addr4_unsent + 1
    /\ new.list_rcvd

\* C24: when an address that no subflow of an MCB uses comes up, the MCB
\* with room in its local IPv4 list gets the address appended under an id
\* that none of its local addresses (IPv4 or IPv6) has, addr4_unsent grows
\* by one and list_rcvd is set; an MCB whose list is full is left unchanged
C24_UpAppendsFreshId ==
    UpOfUnused =>
        IF Len(ret.pre_mpcb.addr4) < MPTCP_MAX_ADDR
        THEN AppendedFresh(ret.pre_mpcb, mpcb, ret.arg.addr)
        ELSE mpcb = ret.pre_mpcb

\* the same on a host without IPv6 addresses
C24_UpAppendsFreshId4 ==
    (UpOfUnused /\ ret.pre_mpcb.addr6 = <<>>) =>
        IF Len(ret.pre_mpcb.addr4) < MPTCP_MAX_ADDR
        THEN AppendedFresh(ret.pre_mpcb, mpcb, ret.arg.addr)
        ELSE mpcb = ret.pre_mpcb

C24_FullSeen == UpOfUnused /\ Len(ret.pre_mpcb.addr4) = MPTCP_MAX_ADDR

(***************************************************************************)
(* Properties of mptcp_close against the fallback worker (SpecRace)        *)
(***************************************************************************)
\* mptcp_close, or the worker, has entered mptcp_destroy_mpcb
CloseTornDown == pc.close \in {"window", "relocked", "closed"}
WqTornDown == pc.wq \in {"window", "relocked", "destroyed"}

\* C25: however mptcp_close and the fallback worker interleave on a master
\* socket, at most one of them runs mptcp_destroy_mpcb on the MCB, and the
\* MCB is not freed while mptcp_close is between its mptcp_destroy_mpcb and
\* its end, the window where mptcp_destroy_mpcb has let the lock go included
C25_TeardownOnce ==
    /\ ~(CloseTornDown /\ WqTornDown)
    /\ pc.close \in {"window", "relocked"} => mpcb.allocated

\* the two run one after the other: the second finds nothing to tear down
C25_Sequential ==
    \/ pc.close = "closed" /\ pc.wq = "returned"
    \/ pc.wq = "destroyed" /\ pc.close = "tcp_close"

(***************************************************************************)
(* Properties of the JOIN entry points under the socket lock (SpecRace)    *)
(***************************************************************************)
\* a JOIN SYN or the ACK of a JOIN has just been handled for an MCB found
JoinHandled ==
    ret.op \in {"mptcp_v4_do_rcv", "mptcp_subflow_attach", "sk_add_backlog", "kfree_skb"}

C26_JoinRespectsOwnerOfLive ==
    (JoinHandled /\ ret.pre_mpcb.allocated) =>
        IF ret.pre_tp[MasterSk].owned
        THEN /\ tp = ret.pre_tp
             /\ IF Len(ret.pre_mpcb.sk_backlog) < MaxBacklog
                THEN /\ ret.op = "sk_add_backlog"
                     /\ Len(mpcb.sk_backlog) = Len(ret.pre_mpcb.sk_backlog) + 1
                     /\ [mpcb EXCEPT !.sk_backlog = ret.pre_mpcb.sk_backlog] = ret.pre_mpcb
                ELSE ret.op = "kfree_skb" /\ mpcb = ret.pre_mpcb
        ELSE ret.op \in {"mptcp_v4_do_rcv", "mptcp_subflow_attach"}

\* a JOIN SYN went to the backlog, and the ACK of a JOIN was dropped, while
\* mptcp_close held the lock
C26_OwnedSeen ==
    /\ ret.op = "kfree_skb"
    /\ ret.pre_tp[MasterSk].owned
    /\ Len(mpcb.sk_backlog) = MaxBacklog
    /\ pc.close \in {"locked", "relocked"}

(***************************************************************************)
(* Properties of mptcp_get_dataseq_mapping (SpecRcv)                       *)
(***************************************************************************)
\* a segment has just arrived on a multipath subflow: ret.arg.skb is the
\* segment as mptcp_get_dataseq_mapping got it, ret.res what it gave back
MapCall == ret.op = "tcp_data_queue" /\ ret.calls # <<>> /\ ret.calls[1].mpc

\* the segment was inside the mapping and got its DSNs
Derived == MapCall /\ ret.res.bug = "none" /\ ret.res.skb.mapped

\* the function applied once more to the segment it gave back
Reapplied == mptcp_get_dataseq_mapping(mpcb, ret.res.t, ret.res.skb)

SecondCallKeeps ==
    /\ Reapplied.t = ret.res.t
    /\ Reapplied.skb.data_seq = ret.res.skb.data_seq

\* C27 as stated: a segment inside the active mapping gets data_seq =
\* map_data_seq + (seq - map_subseq) and end_data_seq = data_seq + len, its
\* data_len is cleared, and a second application neither replaces the
\* stored mapping nor changes data_seq
C27_DerivedDsn ==
    Derived =>
        /\ ret.res.skb.data_seq
              = ret.res.t.map_data_seq + (ret.res.skb.seq - ret.res.t.map_subseq)
        /\ ret.res.skb.end_data_seq = ret.res.skb.data_seq + ret.res.skb.len
        /\ ret.res.skb.data_len = 0
        /\ SecondCallKeeps

\* the segment carries the data FIN that the MCB has recorded
CarriesDfin(skb) ==
    mpcb.dfin_rcvd /\ skb.F /\ mpcb.fin_dsn = skb.data_seq + skb.len + 1

\* C27: a segment inside the active mapping gets data_seq = map_data_seq +
\* (seq - map_subseq) and end_data_seq = data_seq + len, one more when it
\* carries the data FIN; its data_len is cleared, and a second application
\* neither replaces the stored mapping nor changes data_seq
C27_DerivedDsnDfin ==
    Derived =>
        /\ ret.res.skb.data_seq
              = ret.res.t.map_data_seq + (ret.res.skb.seq - ret.res.t.map_subseq)
        /\ ret.res.skb.end_data_seq
              = ret.res.skb.data_seq + ret.res.skb.len
                  + (IF CarriesDfin(ret.res.skb) THEN 1 ELSE 0)
        /\ ret.res.skb.data_len = 0
        /\ SecondCallKeeps

\* a segment with payload, its own mapping and the data FIN got its DSNs
C27_Witness ==
    /\ Derived
    /\ ret.arg.skb.data_len # 0 /\ ret.res.skb.len > 0
    /\ CarriesDfin(ret.res.skb)

\* a segment without a mapping of its own got its DSNs from the one stored
C27_WitnessStored ==
    Derived /\ ret.arg.skb.data_len = 0 /\ ret.res.skb.seq > ret.res.t.map_subseq

\* the DSN range of the segment the function gave back contains dsn
Contains(skb, dsn) == skb.data_seq <= dsn /\ dsn < skb.end_data_seq

\* the segment is a subflow FIN without data, or lies inside the mapping
ValidSegment == MapCall /\ ret.res.bug = "none"

\* C28: the function answers 1 exactly when the DSN range of the segment
\* contains the rcv_nxt of the MCB, 0 for any other valid segment, and -1
\* when the segment violates the mapping
C28_InOrderIffRcvNxt ==
    MapCall =>
        /\ ValidSegment => ret.res.ans = (IF ret.res.skb.mapped
                                             /\ Contains(ret.res.skb, ret.arg.rcv_nxt)
                                          THEN 1 ELSE 0)
        /\ ~ValidSegment => ret.res.ans = -1

\* the same with the copied_seq of the meta socket in the place of rcv_nxt
C28_InOrderIffCopiedSeq ==
    MapCall =>
        /\ ValidSegment => ret.res.ans = (IF ret.res.skb.mapped
                                             /\ Contains(ret.res.skb, ret.arg.copied_seq)
                                          THEN 1 ELSE 0)
        /\ ~ValidSegment => ret.res.ans = -1

(***************************************************************************)
(* Properties of the meta out-of-order queue (SpecRcv)                     *)
(***************************************************************************)
\* the DSN range of segment a covers that of segment b
Covers(a, b) == a.data_seq <= b.data_seq /\ b.end_data_seq <= a.end_data_seq

NoOverlap(q) ==
    \A i, j \in 1..Len(q) :
        i < j => (q[i].end_data_seq <= q[j].data_seq \/ q[j].end_data_seq <= q[i].data_seq)

\* call k of mptcp_queue_skb got a segment beyond rcv_nxt whose DSN range
\* covers a segment of the out-of-order queue and is not the same range
SupersetCall(k) ==
    /\ ret.calls[k].fn = "mptcp_queue_skb" /\ ret.calls[k].mpc
    /\ ret.calls[k].pre.rcv_nxt < ret.calls[k].skb.data_seq
    /\ \E i \in 1..Len(ret.calls[k].pre.out_of_order_queue) :
          /\ Covers(ret.calls[k].skb, ret.calls[k].pre.out_of_order_queue[i])
          /\ ~Covers(ret.calls[k].pre.out_of_order_queue[i], ret.calls[k].skb)

\* C29: a segment beyond rcv_nxt whose DSN range is a superset of a segment
\* in the out-of-order queue, equal data_seq and larger end_data_seq
\* included, is queued without a fault, the covered segment is removed, and
\* no two segments of the queue overlap afterwards
C29_SupersetReplaces ==
    \A k \in 1..Len(ret.calls) :
        SupersetCall(k) =>
            /\ bug = "none"
            /\ ret.calls[k].ans = MPTCP_QUEUED
            /\ \E j \in 1..Len(ret.calls[k].post.out_of_order_queue) :
                  ret.calls[k].post.out_of_order_queue[j] = ret.calls[k].skb
            /\ \A i \in 1..Len(ret.calls[k].pre.out_of_order_queue) :
                  Covers(ret.calls[k].skb, ret.calls[k].pre.out_of_order_queue[i]) =>
                     \A j \in 1..Len(ret.calls[k].post.out_of_order_queue) :
                        ret.calls[k].post.out_of_order_queue[j]
                           # ret.calls[k].pre.out_of_order_queue[i]
            /\ NoOverlap(ret.calls[k].post.out_of_order_queue)

(***************************************************************************)
(* Properties of mptcp_v4_add_raddress (Spec)                              *)
(***************************************************************************)
\* an ADD_ADDR option has just been handled: ret.arg is what the option
\* carried, ret.pre_mpcb the MCB before and ret.res the MCB as
\* mptcp_v4_add_raddress left it
AddCall == ret.op = "mptcp_v4_add_raddress"

\* the stored remote addresses that match address and port of the call
ExactMatches ==
    {i \in 1..Len(ret.pre_mpcb.raddr4) :
        /\ ret.pre_mpcb.raddr4[i].addr = ret.arg.addr
        /\ ret.pre_mpcb.raddr4[i].port = ret.arg.port}

\* the stored remote addresses with the id of the call and another address
NatMatches ==
    {i \in 1..Len(ret.pre_mpcb.raddr4) :
        /\ ret.pre_mpcb.raddr4[i].id = ret.arg.id
        /\ ret.pre_mpcb.raddr4[i].addr # ret.arg.addr}

\* C30: a call with the id of a stored entry and a different address
\* overwrites address and port of that entry in place, leaves the number of
\* entries and every other entry as they are and sets list_rcvd; a call
\* with address and port of a stored entry, or with id 0, changes nothing
C30_NatUpdateInPlace ==
    AddCall =>
        /\ (ret.arg.id = 0 \/ ExactMatches # {}) => ret.res = ret.pre_mpcb
        /\ (ret.arg.id # 0 /\ NatMatches # {}) =>
              \E i \in NatMatches :
                 ret.res = [ret.pre_mpcb EXCEPT !.raddr4[i].addr = ret.arg.addr,
                                                !.raddr4[i].port = ret.arg.port,
                                                !.list_rcvd = TRUE]

\* the first stored entry that matches the call one way or the other
FirstMatch ==
    CHOOSE i \in ExactMatches \cup NatMatches :
        \A j \in ExactMatches \cup NatMatches : i <= j

\* C30, entry by entry: the first stored entry that has address and port of
\* the call, or its id and another address, decides: in the first case
\* nothing changes, in the second address and port of that entry are
\* overwritten in place, every other entry and the number of entries stay
\* and list_rcvd is set; a call with id 0 changes nothing
C30_FirstMatchDecides ==
    AddCall =>
        /\ ret.arg.id = 0 => ret.res = ret.pre_mpcb
        /\ (ret.arg.id # 0 /\ ExactMatches \cup NatMatches # {}) =>
              ret.res = IF FirstMatch \in ExactMatches THEN ret.pre_mpcb
                        ELSE [ret.pre_mpcb EXCEPT
                                 !.raddr4[FirstMatch].addr = ret.arg.addr,
                                 !.raddr4[FirstMatch].port = ret.arg.port,
                                 !.list_rcvd = TRUE]

\* an entry was overwritten although a later entry had address and port of
\* the call
C30_Witness ==
    /\ AddCall /\ ret.arg.id # 0
    /\ ExactMatches # {} /\ NatMatches # {}
    /\ FirstMatch \in NatMatches
    /\ ret.res.raddr4 # ret.pre_mpcb.raddr4
    /\ Len(ret.res.raddr4) = Len(ret.pre_mpcb.raddr4)

\* calls that changed nothing: id 0, and address and port already stored
C30_WitnessUlid == AddCall /\ ret.arg.id = 0 /\ ret.res = ret.pre_mpcb
C30_WitnessKnown ==
    AddCall /\ ret.arg.id # 0 /\ ExactMatches # {} /\ FirstMatch \in ExactMatches

(***************************************************************************)
(* The retransmission queue of the meta socket.  rtx_queue is the whole    *)
(* write queue of the meta socket, sent segments first; send_head is the   *)
(* position in it of the first unsent segment, 0 when there is none (a     *)
(* NULL sk_send_head).  A segment here is the record of its data_seq and   *)
(* end_data_seq.  Sequence numbers stay far below the wrap of before().    *)
(***************************************************************************)
tcp_unlink_head(m) ==
    [m EXCEPT !.rtx_queue = Tail(m.rtx_queue),
              !.send_head = IF m.send_head = 0 THEN 0 ELSE m.send_head - 1,
              !.packets_out = m.packets_out - 1]

RECURSIVE mptcp_clean_rtx_queue_all(_)
mptcp_clean_rtx_queue_all(m) ==
    IF m.rtx_queue = <<>> \/ m.send_head = 1 THEN m
    ELSE mptcp_clean_rtx_queue_all(tcp_unlink_head(m))

RECURSIVE mptcp_clean_rtx_queue(_)
mptcp_clean_rtx_queue(m) ==
    IF m.rtx_queue = <<>> \/ m.send_head = 1 THEN m
    ELSE IF before(m.snd_una, m.rtx_queue[1].end_data_seq) THEN m
    ELSE mptcp_clean_rtx_queue(tcp_unlink_head(m))

MetaSendmsg(len) ==
    /\ bug = "none"
    /\ tk_mcb[1].state = "alive"
    /\ mpcb.mpc /\ mpcb.cnt_subflows > 0
    /\ mpcb.write_seq + len <= MaxRtxSeq
    /\ mpcb' = [mpcb EXCEPT
                  !.rtx_queue = Append(mpcb.rtx_queue,
                                       [data_seq |-> mpcb.write_seq,
                                        end_data_seq |-> mpcb.write_seq + len]),
                  !.send_head = IF mpcb.send_head = 0
                                THEN Len(mpcb.rtx_queue) + 1
                                ELSE mpcb.send_head,
                  !.write_seq = mpcb.write_seq + len]
    /\ ret' = [no_call EXCEPT !.op = "tcp_sendmsg"]
    /\ UNCHANGED <<pc, sysctl_mptcp_ndiffports, sysctl_mptcp_checksum, ifa_list, tp, bug,
                   delivered, arrivals, latest_token, tk_hashtable, tk_mcb, pm_events>>

MetaXmit ==
    /\ bug = "none"
    /\ tk_mcb[1].state = "alive"
    /\ mpcb.send_head # 0
    /\ mpcb' = [mpcb EXCEPT
                  !.snd_nxt = mpcb.rtx_queue[mpcb.send_head].end_data_seq,
                  !.packets_out = mpcb.packets_out + 1,
                  !.send_head = IF mpcb.send_head = Len(mpcb.rtx_queue)
                                THEN 0 ELSE mpcb.send_head + 1]
    /\ ret' = [no_call EXCEPT !.op = "tcp_event_new_data_sent"]
    /\ UNCHANGED <<pc, sysctl_mptcp_ndiffports, sysctl_mptcp_checksum, ifa_list, tp, bug,
                   delivered, arrivals, latest_token, tk_hashtable, tk_mcb, pm_events>>

\* an acknowledgment received on a subflow: data_ack is the data-level
\* acknowledgment it carries, and the meta snd_una of a subflow-level
\* acknowledgment that carries none (or an old one) stays where it is
MetaAck(data_ack) ==
    /\ bug = "none"
    /\ tk_mcb[1].state = "alive"
    /\ mpcb.cnt_subflows > 0
    /\ data_ack <= mpcb.snd_nxt
    /\ mpcb' = mptcp_clean_rtx_queue(
                   [mpcb EXCEPT !.snd_una = IF after(data_ack, mpcb.snd_una)
                                            THEN data_ack ELSE mpcb.snd_una])
    /\ ret' = [no_call EXCEPT !.op = "mptcp_clean_rtx_queue", !.arg = data_ack,
                              !.pre_mpcb = mpcb]
    /\ UNCHANGED <<pc, sysctl_mptcp_ndiffports, sysctl_mptcp_checksum, ifa_list, tp, bug,
                   delivered, arrivals, latest_token, tk_hashtable, tk_mcb, pm_events>>

NextRtx ==
    \/ Socket(1)
    \/ AllocMpcb(1)
    \/ MasterAttach("ESTABLISHED")
    \/ \E len \in 1..2 : MetaSendmsg(len)
    \/ MetaXmit
    \/ \E data_ack \in 0..MaxRtxSeq : MetaAck(data_ack)

SpecRtx == Init /\ [][NextRtx]_vars

(***************************************************************************)
(* C31.  mptcp_clean_rtx_queue removes from the head of the meta write     *)
(* queue exactly the segments already sent whose end_data_seq is at or     *)
(* before the meta snd_una, and stops at the first segment that is not     *)
(* fully acknowledged at the data level; it never removes the send head    *)
(* or a segment after it; an acknowledgment that does not advance the      *)
(* meta snd_una removes nothing.                                           *)
(***************************************************************************)
CleanCall == ret.op = "mptcp_clean_rtx_queue"

Removed == Len(ret.pre_mpcb.rtx_queue) - Len(mpcb.rtx_queue)

Sent(m, k) == m.send_head = 0 \/ k < m.send_head

\* C31: the call removes exactly the sent segments at the head that snd_una
\* covers, and nothing when snd_una did not move
C31_CleanRtxQueue ==
    CleanCall =>
        /\ Removed >= 0
        /\ mpcb.rtx_queue = SubSeq(ret.pre_mpcb.rtx_queue, Removed + 1,
                                   Len(ret.pre_mpcb.rtx_queue))
        /\ \A k \in 1..Removed :
               /\ Sent(ret.pre_mpcb, k)
               /\ ret.pre_mpcb.rtx_queue[k].end_data_seq <= mpcb.snd_una
        /\ \/ mpcb.rtx_queue = <<>>
           \/ ~Sent(ret.pre_mpcb, Removed + 1)
           \/ mpcb.rtx_queue[1].end_data_seq > mpcb.snd_una
        /\ mpcb.packets_out = ret.pre_mpcb.packets_out - Removed
        /\ (mpcb.snd_una = ret.pre_mpcb.snd_una => Removed = 0)

\* a data-level acknowledgment removed a sent segment and stopped at a sent
\* segment it does not cover, with an unsent segment behind
C31_Witness ==
    /\ CleanCall
    /\ Removed >= 1
    /\ Len(mpcb.rtx_queue) >= 2
    /\ Sent(ret.pre_mpcb, Removed + 1)
    /\ mpcb.send_head # 0

\* a subflow-level acknowledgment found sent segments and left them
C31_WitnessSubflowAck ==
    /\ CleanCall
    /\ mpcb.snd_una = ret.pre_mpcb.snd_una
    /\ mpcb.rtx_queue # <<>>
    /\ Sent(mpcb, 1)

(***************************************************************************)
(* C32.  mptcp_add_sock of a subflow in state ESTABLISHED increments       *)
(* cnt_established and moves the meta socket to ESTABLISHED if it was in   *)
(* SYN_SENT or SYN_RECV; attaching a subflow in any other state leaves     *)
(* the state of the meta socket and cnt_established as they were; the      *)
(* meta socket never becomes ESTABLISHED in a step that leaves no          *)
(* attached subflow in state ESTABLISHED.                                  *)
(***************************************************************************)
\* the step is a call of mptcp_add_sock that returned; ret'.arg is the
\* state the subflow had when it was attached
AddSockStep ==
    /\ ret'.op \in {"mptcp_add_sock", "mptcp_subflow_attach"}
    /\ bug' = "none"

Attaches == \E s \in Socks : ~tp[s].attached /\ tp'[s].attached

C32_Step ==
    /\ (AddSockStep /\ ret'.arg = "ESTABLISHED") =>
          /\ mpcb'.cnt_established = mpcb.cnt_established + 1
          /\ mpcb'.sk_state = IF mpcb.sk_state \in {"SYN_SENT", "SYN_RECV"}
                              THEN "ESTABLISHED" ELSE mpcb.sk_state
    /\ (Attaches /\ ~(AddSockStep /\ ret'.arg = "ESTABLISHED")) =>
          /\ mpcb'.cnt_established = mpcb.cnt_established
          /\ mpcb'.sk_state = mpcb.sk_state
    /\ (mpcb.sk_state # "ESTABLISHED" /\ mpcb'.sk_state = "ESTABLISHED") =>
          \E s \in Socks : tp'[s].attached /\ tp'[s].sk_state = "ESTABLISHED"

\* C32: every step keeps the rule of mptcp_add_sock for cnt_established and
\* for the state of the meta socket
C32_MetaFollowsEstablished == [][C32_Step]_vars

\* the meta socket is ESTABLISHED, and a second subflow was attached in
\* another state and did not count
C32_Witness ==
    /\ ret.op = "mptcp_subflow_attach" /\ bug = "none"
    /\ mpcb.sk_state = "ESTABLISHED"
    /\ mpcb.cnt_established = 1
    /\ mpcb.cnt_subflows = 2

\* the master was attached in SYN_RECV: the meta socket stays in SYN_SENT
C32_WitnessNotEstablished ==
    /\ ret.op = "mptcp_add_sock" /\ ret.arg = "SYN_RECV" /\ bug = "none"
    /\ mpcb.sk_state = "SYN_SENT" /\ mpcb.cnt_established = 0

(***************************************************************************)
(* C33.  Every reference on the master socket taken by mptcp_hash_find or  *)
(* mptcp_v4_search_req is released exactly once on every path through     *)
(* mptcp_lookup_join and mptcp_syn_recv_sock (segment handled at once,     *)
(* segment put on the backlog, backlog full and segment dropped): the      *)
(* master that was referenced is the master of a live MCB and its          *)
(* reference count after the call is its count before, the reference      *)
(* that a subflow attached by the call holds for itself counted apart.     *)
(***************************************************************************)
\* the subflows the call attached: each holds a reference of its own on
\* the master (mptcp_add_sock)
AttachedByCall ==
    {s \in Socks : tp[s].attached /\ ~ret.pre_tp[s].attached}

C33_JoinRefBalancedOfLive ==
    (JoinHandled /\ ret.pre_mpcb.allocated) =>
        tp[MasterSk].sk_refcnt =
            ret.pre_tp[MasterSk].sk_refcnt + Cardinality(AttachedByCall)

C33_DroppedSeen ==
    /\ ret.op = "kfree_skb" /\ ret.pre_mpcb.allocated
    /\ tp[MasterSk].sk_refcnt = ret.pre_tp[MasterSk].sk_refcnt

C33_AttachedSeen ==
    /\ ret.op = "mptcp_subflow_attach" /\ ret.pre_mpcb.allocated
    /\ tp[MasterSk].sk_refcnt = ret.pre_tp[MasterSk].sk_refcnt + 1

C33_FreedSeen == JoinHandled /\ ~ret.pre_mpcb.allocated

(***************************************************************************)
(* C34.  mptcp_retransmit_queue reinjects the write queue of a subflow     *)
(* only if the subflow is MPTCP-capable, ESTABLISHED and not already in    *)
(* pf; a call on a subflow that is in pf adds nothing to the reinject      *)
(* queue and changes nothing; a subflow in pf is never chosen by the       *)
(* scheduler, and pf is cleared only by an acknowledgment on the subflow.  *)
(***************************************************************************)
RetransmitStep == ret'.op \in {"mptcp_reinject_data", "mptcp_retransmit_queue"}

C34_Step ==
    /\ RetransmitStep =>
          /\ (mpcb' # mpcb \/ tp' # tp) =>
                /\ tp[ret'.s].mpc
                /\ tp[ret'.s].sk_state = "ESTABLISHED"
                /\ ~tp[ret'.s].pf
          /\ tp[ret'.s].pf =>
                /\ mpcb'.reinject_queue = mpcb.reinject_queue
                /\ tp' = tp
    /\ (ret'.op = "get_available_subflow" /\ ret'.ans # 0) => ~tp[ret'.ans].pf
    /\ \A s \in Socks :
          (tp[s].pf /\ ~tp'[s].pf) => (ret'.op = "tcp_clean_rtx_queue" /\ ret'.s = s)

\* C34: every step keeps the rule of mptcp_retransmit_queue and of pf
C34_ReinjectOncePerPf == [][C34_Step]_vars

\* mptcp_retransmit_queue was called again on a subflow in pf whose write
\* queue still holds the reinjected segment, and the reinject queue kept it
C34_Witness ==
    /\ ret.op = "mptcp_retransmit_queue"
    /\ tp[ret.s].pf /\ tp[ret.s].mpc /\ tp[ret.s].sk_state = "ESTABLISHED"
    /\ tp[ret.s].sk_write_queue # <<>>
    /\ Len(mpcb.reinject_queue) = 1
    /\ mpcb.cnt_subflows = 2

(***************************************************************************)
(* C35.  mptcp_ofo_queue never finds at the head of the meta ofo queue a   *)
(* segment whose end_data_seq is at or before rcv_nxt: its BUG() is not    *)
(* reached, also when an in-order segment covers the whole DSN range of a  *)
(* segment that waits in the ofo queue.                                    *)
(***************************************************************************)
C35_OfoBugUnreachable == bug # "mptcp_ofo_queue"

(***************************************************************************)
(* C36.  After any sequence of subflow attaches and detaches the MCB's     *)
(* counters satisfy 0 <= cnt_established <= cnt_subflows.                  *)
(***************************************************************************)
C36_EstablishedWithinSubflows ==
    (mpcb.allocated /\ bug = "none") =>
        /\ 0 <= mpcb.cnt_established
        /\ mpcb.cnt_established <= mpcb.cnt_subflows

(***************************************************************************)
(* Server-side joins one after the other: a joined subflow is closed and   *)
(* the peer joins again.  MaxJoins bounds the JOIN SYNs, and the joins may *)
(* use every path index up to PATH_MASK_BITS + 1.                          *)
(***************************************************************************)
\* u32 path_mask, u32 noneligible, u32 path_indices
PATH_MASK_BITS == 32

NextPi ==
    \/ Socket(1)
    \/ AllocMpcb(1)
    \/ MasterAttach("ESTABLISHED")
    \/ JoinSynUpTo([ev |-> MaxJoins, pi |-> PATH_MASK_BITS + 1, reqs |-> MaxReqs],
                   12, 50, 1, 1, TRUE)
    \/ JoinAckUpTo(PATH_MASK_BITS + 1, 50, 12, 1)
    \/ DelSock(2)
    \/ Destroy(2)

SpecPi == Init /\ [][NextPi]_vars

(***************************************************************************)
(* C37.  Every path index assigned from next_unused_pi stays at or below   *)
(* 32, so that PI_TO_FLAG(path_index) = 1 << (path_index - 1) is a bit of  *)
(* its own in the 32-bit masks for every live subflow, after any number    *)
(* of path-array rebuilds and server-side joins.                           *)
(***************************************************************************)
C37_PathIndexFitsMask ==
    /\ \A s \in Socks :
          (tp[s].open /\ tp[s].attached) => tp[s].path_index <= PATH_MASK_BITS
    /\ \A i \in 1..Len(mpcb.pa4) : mpcb.pa4[i].path_index <= PATH_MASK_BITS

(***************************************************************************)
(* C38.  After every rebuild of the path array each entry's local address  *)
(* is the address now stored under its loc_id and its remote address is    *)
(* the address now stored under its rem_id (the ULID address for id 0):    *)
(* after a NAT update in place no surviving entry keeps the old address.   *)
(***************************************************************************)
\* the addresses stored under an id, local and remote
LocAddrsOf(m, id) ==
    IF id = 0 THEN {m.inet_saddr}
    ELSE {m.addr4[i].addr : i \in {k \in 1..Len(m.addr4) : m.addr4[k].id = id}}

RemAddrsOf(m, id) ==
    IF id = 0 THEN {m.inet_daddr}
    ELSE {m.raddr4[i].addr : i \in {k \in 1..Len(m.raddr4) : m.raddr4[k].id = id}}

\* an ADD_ADDR has just changed the remote addresses and the path array was
\* rebuilt from the address sets
RebuildDone ==
    /\ ret.op = "mptcp_v4_add_raddress" /\ ret.res.list_rcvd
    /\ sysctl_mptcp_ndiffports = 1
    /\ bug = "none"

\* C38: after a rebuild every path entry carries the addresses now stored
\* under its loc_id and its rem_id
C38_PathsFollowAddresses ==
    RebuildDone =>
        \A i \in 1..Len(mpcb.pa4) :
            /\ mpcb.pa4[i].loc_addr \in LocAddrsOf(mpcb, mpcb.pa4[i].loc_id)
            /\ mpcb.pa4[i].rem_addr \in RemAddrsOf(mpcb, mpcb.pa4[i].rem_id)

\* the rebuild after a NAT update in place (one stored remote address, its
\* id kept, its address changed)
C38_NatRebuildSeen ==
    /\ RebuildDone
    /\ Len(ret.pre_mpcb.raddr4) = 1 /\ Len(mpcb.raddr4) = 1
    /\ ret.pre_mpcb.raddr4[1].id = mpcb.raddr4[1].id
    /\ ret.pre_mpcb.raddr4[1].addr # mpcb.raddr4[1].addr

(***************************************************************************)
(* JOIN SYNs that the peer sends again, and SYN-ACKs that cannot be sent.  *)
(***************************************************************************)
NextJoin ==
    \/ Socket(1)
    \/ AllocMpcb(1)
    \/ MasterAttach("ESTABLISHED")
    \/ \E saddr \in {12, 13}, synack_sent \in BOOLEAN :
          JoinSynUpTo([ev |-> MaxJoinSyns, pi |-> MaxPathIndex, reqs |-> MaxDupReqs],
                      saddr, 50, 1, saddr - 11, synack_sent)
    \/ \E saddr \in {12, 13} : JoinAck(50, saddr, 1)

SpecJoin == Init /\ [][NextJoin]_vars

(***************************************************************************)
(* C39.  For any sequence of received SYN+MP_JOIN segments for a live MCB, *)
(* SYNs sent again from the same remote address and port included, the     *)
(* tuple hashtable holds at most one pending request sock for a tuple      *)
(* (remote address, remote port, local address), and a request sock is     *)
(* hashed only if its SYN-ACK was sent.                                    *)
(***************************************************************************)
ReqTuple(q) == <<q.rmt_addr, q.rmt_port, q.loc_addr>>

Hashed(m) == {k \in 1..Len(m.syn_table) : m.syn_table[k].hashed}

\* C39: at most one pending request sock for a tuple, and none hashed
\* when the SYN-ACK was not sent
C39_OneRequestPerTuple ==
    /\ \A i, j \in Hashed(mpcb) :
          i # j => ReqTuple(mpcb.syn_table[i]) # ReqTuple(mpcb.syn_table[j])
    /\ (ret.op = "mptcp_v4_do_rcv" /\ ret.arg.synack_sent = FALSE) =>
          mpcb.syn_table = ret.pre_mpcb.syn_table

\* the second part alone
C39_HashedOnlyIfSynackSent ==
    (ret.op = "mptcp_v4_do_rcv" /\ ret.arg.synack_sent = FALSE) =>
        mpcb.syn_table = ret.pre_mpcb.syn_table

C39_SynackFailedSeen ==
    /\ ret.op = "mptcp_v4_do_rcv" /\ ret.arg.synack_sent = FALSE
    /\ Len(mpcb.syn_table) = 1

(***************************************************************************)
(* C40.  mptcp_init_subsockets creates a subflow only for a path index     *)
(* that has an entry in the path array and that no subflow of the          *)
(* connection list holds: its BUG_ON for a missing path entry is not       *)
(* reached in any state of the MCB, also after the master subflow (path    *)
(* index 1, always in the notified path_indices) has been detached while   *)
(* the MCB is still live.                                                  *)
(***************************************************************************)
C40_PathEntryFound == bug # "mptcp_init_subsockets"

(***************************************************************************)
(* ADD_ADDR received on a joined subflow after the application has closed  *)
(* and the master subflow has been detached: the MCB lives as long as a    *)
(* joined subflow holds it.                                                *)
(***************************************************************************)
AddAddrLate(addr, port, id) ==
    /\ mpcb.allocated
    /\ tp[MasterSk].open
    /\ \E s \in Socks : s # MasterSk /\ tp[s].open /\ tp[s].attached
    /\ AddAddrOn(MaxPmEvents, addr, port, id, {})

NextSub ==
    \/ Socket(1)
    \/ AllocMpcb(1)
    \/ MasterAttach("ESTABLISHED")
    \/ JoinSyn(12, 50, 1, 1)
    \/ JoinAck(50, 12, 1)
    \/ Close(1)
    \/ \E s \in Socks : DelSock(s)
    \/ \E addr \in {12, 13}, id \in AddrIds : AddAddrLate(addr, 0, id)

SpecSub == Init /\ [][NextSub]_vars

\* mptcp_init_subsockets ran with the master attached and found its paths
C40_AttachedSeen ==
    /\ ret.op = "mptcp_v4_add_raddress" /\ ret.res.list_rcvd
    /\ tp[MasterSk].attached /\ bug = "none"

====
